---- MODULE Spec2Model ----
(***************************************************************************)
(* A model of cl-hive-archon's ArchonService / ArchonStore                 *)
(* (src/modules/archon_service.py).                                        *)
(*                                                                         *)
(* The SQLite tables are sets of rows; the constraints of the schema       *)
(* (primary keys, UNIQUE, FOREIGN KEY) are enforced by the operators that  *)
(* model the statements, not by the shape of the state.  Each service      *)
(* method is one action of Spec (a call that runs alone); SpecConc runs    *)
(* vote calls statement by statement so that calls interleave.             *)
(***************************************************************************)
EXTENDS Integers, Sequences, FiniteSets, TLC

VARIABLES
    identity,         \* rows of archon_identity
    bindings,         \* rows of archon_bindings
    polls,            \* rows of archon_polls
    votes,            \* rows of archon_votes
    outbox,           \* rows of archon_outbox
    now,              \* the injected clock, int(time_fn())
    nextDid,          \* how many local DIDs were minted (uuid4 freshness)
    nextPoll,         \* how many poll ids were minted (uuid4 freshness)
    network_enabled,  \* set by the constructor, fixed afterwards
    observe,          \* the method whose calls `last` records
    last,             \* the observed method's latest call, with its result
    calls             \* SpecConc: the vote calls in progress, per thread

vars == <<identity, bindings, polls, votes, now, nextDid, nextPoll,
          network_enabled, outbox, observe, last, calls>>

store == <<identity, bindings, polls, votes>>

---------------------------------------------------------------------------
(* Bounds of the model *)

MaxTime == 3          \* the clock runs over 0..MaxTime
MaxDids == 2          \* local DIDs minted
MaxPollIds == 3       \* poll ids minted
NumThreads == 2       \* SpecConc: concurrent vote calls

(* Program constants, scaled down so that their cases are reached *)

MAX_TOTAL_POLLS == 2            \* 5_000 in the source
MAX_TOTAL_VOTES == 2            \* 50_000 in the source
SECONDS_PER_DAY == 1            \* 86400 in the source
min_governance_bond_sats == 2   \* 50_000 by default in the source
MIN_OPTIONS == 2
MAX_OPTIONS == 10
MAX_MY_VOTES == 500

---------------------------------------------------------------------------
(* Values *)

Null == [null |-> TRUE]

NodePubkey == "02abab"            \* what rpc.getinfo()["id"] returns
GatewayDid == "did:cid:gateway"   \* a DID the gateway may hand out
RemotePollId == "remote-1"

Did(n) == "did:cid:" \o ToString(n)

Threads == 1..NumThreads
Times == 0..MaxTime
PollIds == 1..MaxPollIds
Choices == {"yes", "no", "abstain"}
Reasons == {"needed"}
OptionLists == {<<"yes", "no">>, <<"yes", "yes">>, <<"yes">>}
TargetTiers == {"basic", "governance", "admin"}
\* bond_sats as the caller passes it: an int, or a str.
PyInt(n) == [type |-> "int", value |-> n, text |-> ""]
PyStr(t) == [type |-> "str", value |-> 0, text |-> t]

BondInputs == {PyInt(min_governance_bond_sats - 1), PyInt(min_governance_bond_sats)}
BondTexts == {PyStr("not_a_number")}
BalanceInputs == {0, min_governance_bond_sats}
RetentionInputs == {0, 1}
LimitInputs == {0, 1, 2}
GatewayProvisionReplies == {"raise", "none", GatewayDid}
GatewayPollReplies == {"raise", "none", RemotePollId}
GatewayVoteReplies == {"raise", "false", "true"}

VALID_GOVERNANCE_TIERS == {"basic", "governance"}

Range(s) == {s[i] : i \in DOMAIN s}

---------------------------------------------------------------------------
(* ArchonStore: one operator per statement *)

get_identity(idt) ==
    IF \E r \in idt : r.singleton_id = 1
    THEN CHOOSE r \in idt : r.singleton_id = 1
    ELSE Null

\* A faulty variant of upsert_identity: a plain INSERT into a table without the
\* singleton primary key.
upsert_identity_insert(idt, did, governance_tier, source, now_ts) ==
    idt \cup {[singleton_id |-> 1, did |-> did,
               governance_tier |-> governance_tier, source |-> source,
               created_at |-> now_ts]}

\* A faulty variant of upsert_identity: the replaced row's created_at is lost.
upsert_identity_fresh_created_at(idt, did, governance_tier, source, now_ts) ==
    {r \in idt : r.singleton_id # 1} \cup
    {[singleton_id |-> 1, did |-> did, governance_tier |-> governance_tier,
      source |-> source, created_at |-> now_ts]}

\* INSERT OR REPLACE on the primary key singleton_id = 1.
upsert_identity(idt, did, governance_tier, source, now_ts) ==
    LET existing == get_identity(idt)
        created_at == IF existing # Null THEN existing.created_at ELSE now_ts
    IN  {r \in idt : r.singleton_id # 1} \cup
        {[singleton_id |-> 1, did |-> did, governance_tier |-> governance_tier,
          source |-> source, created_at |-> created_at]}

update_governance_tier(idt, governance_tier, now_ts) ==
    {IF r.singleton_id = 1
     THEN [r EXCEPT !.governance_tier = governance_tier]
     ELSE r : r \in idt}

\* A faulty variant of upsert_binding: a plain INSERT into a table without
\* UNIQUE(binding_type, subject).
upsert_binding_insert(bs, binding_id, did, binding_type, subject, signature, now_ts) ==
    bs \cup {[binding_id |-> binding_id, did |-> did,
               binding_type |-> binding_type, subject |-> subject,
               signature |-> signature,
               created_at |-> now_ts, updated_at |-> now_ts]}

\* INSERT ... ON CONFLICT(binding_type, subject) DO UPDATE.
upsert_binding(bs, binding_id, did, binding_type, subject, signature, now_ts) ==
    LET hit == {b \in bs : b.binding_type = binding_type /\ b.subject = subject}
    IN  IF hit = {}
        THEN bs \cup {[binding_id |-> binding_id, did |-> did,
                       binding_type |-> binding_type, subject |-> subject,
                       signature |-> signature,
                       created_at |-> now_ts, updated_at |-> now_ts]}
        ELSE (bs \ hit) \cup
             {[b EXCEPT !.binding_id = binding_id, !.did = did,
                        !.signature = signature, !.updated_at = now_ts] : b \in hit}

\* A faulty variant of delete_bindings_for_did: nothing is deleted.
delete_bindings_for_did_nothing(bs, did) == bs

delete_bindings_for_did(bs, did) == {b \in bs : b.did # did}

create_poll(ps, poll_id, remote_poll_id, options, deadline) ==
    ps \cup {[poll_id |-> poll_id, remote_poll_id |-> remote_poll_id,
              options |-> options, deadline |-> deadline, status |-> "active"]}

get_poll(ps, poll_id) ==
    IF \E p \in ps : p.poll_id = poll_id
    THEN CHOOSE p \in ps : p.poll_id = poll_id
    ELSE Null

set_poll_status(ps, poll_id, status) ==
    {IF p.poll_id = poll_id THEN [p EXCEPT !.status = status] ELSE p : p \in ps}

\* A faulty variant of complete_expired_polls: no poll is completed.
complete_expired_polls_nothing(ps, now_ts) == ps

complete_expired_polls(ps, now_ts) ==
    {IF p.status = "active" /\ p.deadline <= now_ts
     THEN [p EXCEPT !.status = "completed"] ELSE p : p \in ps}

count_polls_by_status(ps, status) == Cardinality({p \in ps : p.status = status})

count_total_polls(ps) == Cardinality(ps)

list_votes_for_poll(vs, poll_id) == {v \in vs : v.poll_id = poll_id}

\* A faulty variant of add_vote: the table lacks UNIQUE(poll_id, voter_id).
add_vote_no_unique(vs, ps, row) ==
    IF (\E v \in vs : v.vote_id = row.vote_id)
       \/ ~(\E p \in ps : p.poll_id = row.poll_id)
    THEN [inserted |-> FALSE, votes |-> vs]
    ELSE [inserted |-> TRUE, votes |-> vs \cup {row}]

\* add_vote on a connection without PRAGMA foreign_keys=ON: a row whose
\* poll_id names no poll is stored.
add_vote_no_foreign_key(vs, ps, row) ==
    IF \E v \in vs : \/ v.vote_id = row.vote_id
                     \/ (v.poll_id = row.poll_id /\ v.voter_id = row.voter_id)
    THEN [inserted |-> FALSE, votes |-> vs]
    ELSE [inserted |-> TRUE, votes |-> vs \cup {row}]

\* INSERT OR IGNORE: a row that hits PRIMARY KEY(vote_id) or
\* UNIQUE(poll_id, voter_id) is ignored (rowcount 0); a row whose poll_id
\* names no poll raises IntegrityError, which add_vote turns into False.
add_vote(vs, ps, row) ==
    IF \E v \in vs : \/ v.vote_id = row.vote_id
                     \/ (v.poll_id = row.poll_id /\ v.voter_id = row.voter_id)
    THEN [inserted |-> FALSE, votes |-> vs]
    ELSE IF ~(\E p \in ps : p.poll_id = row.poll_id)
    THEN [inserted |-> FALSE, votes |-> vs]
    ELSE [inserted |-> TRUE, votes |-> vs \cup {row}]

count_total_votes(vs) == Cardinality(vs)

\* The rows of list_votes_for_voter's JOIN, before ORDER BY and LIMIT.
votes_joined_for_voter(vs, ps, voter_id) ==
    {[vote |-> v, status |-> get_poll(ps, v.poll_id).status,
      deadline |-> get_poll(ps, v.poll_id).deadline] :
        v \in {w \in vs : /\ w.voter_id = voter_id
                          /\ \E p \in ps : p.poll_id = w.poll_id}}

\* ORDER BY voted_at DESC LIMIT ?: rows of equal voted_at come in any order.
IsNewestFirstPrefix(rows, all, limit) ==
    /\ rows \subseteq all
    /\ Cardinality(rows) = IF limit < Cardinality(all) THEN limit
                           ELSE Cardinality(all)
    /\ \A a \in rows, b \in all \ rows : a.vote.voted_at >= b.vote.voted_at

\* The first statement of prune_completed_polls.
prune_votes_of_completed(vs, ps, before_ts) ==
    {v \in vs : ~(\E p \in ps : /\ p.poll_id = v.poll_id
                                /\ p.status = "completed"
                                /\ p.deadline < before_ts)}

\* A faulty variant of prune_polls_completed: a poll whose deadline is the
\* cutoff itself is deleted too.
prune_polls_completed_through(ps, before_ts) ==
    {p \in ps : ~(p.status = "completed" /\ p.deadline <= before_ts)}

\* The second statement of prune_completed_polls.
prune_polls_completed(ps, before_ts) ==
    {p \in ps : ~(p.status = "completed" /\ p.deadline < before_ts)}

prune_completed_polls(ps, vs, before_ts) ==
    LET ps1 == prune_polls_completed(ps, before_ts)
    IN  [votes |-> prune_votes_of_completed(vs, ps, before_ts),
         polls |-> ps1,
         removed |-> Cardinality(ps) - Cardinality(ps1)]

---------------------------------------------------------------------------
(* NodePort and gateway replies, and the validators, over the model's values *)

NodePubkeyReplies == {NodePubkey, ""}      \* _our_node_pubkey: "" on failure
SignReplies == {"ok", "empty", "raise"}    \* rpc.signmessage
SignUnavailable == {"unavailable"}         \* the service was built without rpc
NostrInputs == {"nostr-1", "not-hex"}
ClnInputs == {"", "02cdcd", "not-hex"}
DidInputs == {"", "did:cid:foreign", "not-a-did"}

_is_valid_nostr_pubkey(value) == value \in {"nostr-1"}
_is_valid_cln_pubkey(value) == value \in {NodePubkey, "02cdcd"}
_is_valid_did(value) == value \notin {"", "not-a-did"}

\* signmessage's zbase over the canonical payload
Signature(payload) == [zbase |-> payload]

\* The empty zbase string.
NoSignature == [zbase |-> <<>>]

\* A faulty variant of _sign_message: called without required=True, an empty
\* signature is returned instead of raised.
_sign_message_not_required(payload, sign) ==
    IF sign = "ok" THEN [raised |-> "", signature |-> Signature(payload)]
    ELSE [raised |-> "", signature |-> NoSignature]

\* _sign_message(payload, required=True) with rpc.signmessage answering
\* `sign`, or with no rpc at all: the signature, or the exception that
\* leaves the call.
_sign_message(payload, sign) ==
    IF sign = "ok" THEN [raised |-> "", signature |-> Signature(payload)]
    ELSE IF sign \in {"empty", "unavailable"}
    THEN [raised |-> "RuntimeError", signature |-> NoSignature]
    ELSE [raised |-> "Exception", signature |-> NoSignature]

---------------------------------------------------------------------------
(* ArchonService helpers *)

\* A faulty variant of _require_governance: any provisioned identity passes.
_require_governance_any_tier(idt) ==
    IF get_identity(idt) = Null THEN "identity not provisioned" ELSE ""

_require_governance(idt) ==
    LET id == get_identity(idt)
    IN  IF id = Null THEN "identity not provisioned"
        ELSE IF id.governance_tier # "governance" THEN "governance tier required"
        ELSE ""

_voter_id(idt, node_pubkey) ==
    LET id == get_identity(idt)
        did == IF id = Null THEN "" ELSE id.did
    IN  IF did # "" THEN did
        ELSE IF node_pubkey # "" THEN node_pubkey ELSE "local-node"

_normalize_poll_options(options) ==
    IF \E i \in DOMAIN options : options[i] = "" THEN Null
    ELSE IF \E i, j \in DOMAIN options : i < j /\ options[i] = options[j] THEN Null
    ELSE IF Len(options) < MIN_OPTIONS \/ Len(options) > MAX_OPTIONS THEN Null
    ELSE [cleaned |-> options]

\* A faulty variant of _refresh_poll_state: the status is recomputed from the
\* deadline with a strict comparison, for completed polls too.
_refresh_poll_state_recompute(ps, poll, now_ts) ==
    LET status == IF poll.deadline < now_ts THEN "completed" ELSE "active"
        ps1 == set_poll_status(ps, poll.poll_id, status)
    IN  [polls |-> ps1, poll |-> get_poll(ps1, poll.poll_id)]

\* A faulty variant of _refresh_poll_state: the deadline is not looked at.
_refresh_poll_state_no_expiry(ps, poll, now_ts) ==
    [polls |-> ps, poll |-> poll]

\* A faulty variant of _refresh_poll_state: the deadline itself is not yet expired.
_refresh_poll_state_strict(ps, poll, now_ts) ==
    IF poll.status = "active" /\ poll.deadline < now_ts
    THEN LET ps1 == set_poll_status(ps, poll.poll_id, "completed")
         IN  [polls |-> ps1, poll |-> get_poll(ps1, poll.poll_id)]
    ELSE [polls |-> ps, poll |-> poll]

\* The store after the refresh and the row the caller goes on with.
_refresh_poll_state(ps, poll, now_ts) ==
    IF poll.status = "active" /\ poll.deadline <= now_ts
    THEN LET ps1 == set_poll_status(ps, poll.poll_id, "completed")
             updated == get_poll(ps1, poll.poll_id)
         IN  [polls |-> ps1, poll |-> IF updated # Null THEN updated ELSE poll]
    ELSE [polls |-> ps, poll |-> poll]

\* A faulty variant of Tally: the options are not entered at 0 first.
TallyOfChoices(options, vs) ==
    [c \in {v.choice : v \in vs} |-> Cardinality({v \in vs : v.choice = c})]

\* poll_status's voters: the voter_id of each row of list_votes_for_poll, in
\* the order of voted_at.
RECURSIVE VotersOf(_)
VotersOf(vs) ==
    IF vs = {} THEN <<>>
    ELSE LET first == CHOOSE v \in vs : \A w \in vs : v.voted_at <= w.voted_at
         IN  <<first.voter_id>> \o VotersOf(vs \ {first})

\* poll_status's tally: every option at 0, plus one per vote's choice.
Tally(options, vs) ==
    [c \in Range(options) \cup {v.choice : v \in vs} |->
        Cardinality({v \in vs : v.choice = c})]

\* `last` is a history variable: it keeps the result of the latest call of
\* the observed method, and nothing of the other methods' calls.
Unobserved == [op |-> "other"]

\* The methods that start with _require_governance.
GovernedMethods == {"poll_create", "vote"}

\* The methods that call the gateway.
RemoteMethods == {"provision", "poll_create", "vote"}

\* The constructor, which validates the gateway URL, and the methods of
\* ArchonGatewayClient.
GatewayMethods == {"__init__", "provision_identity", "create_poll", "submit_vote"}

\* The methods that read the polls and votes without writing.
ReadMethods == {"my_votes", "status"}

\* The methods that sign (bind_nostr and bind_cln record op "bind").
SignedMethods == {"bind", "vote"}

\* The outbox methods of the store, and the service method that drains it.
OutboxMethods == {"add_outbox_entry", "list_outbox_pending", "mark_outbox_success",
                  "mark_outbox_failed", "prune_outbox", "process_outbox"}

\* observe names one method, "governed" for the governed methods, "remote"
\* for the methods that call the gateway, "outbox" for the outbox methods,
\* "signed" for the methods that sign, "gateway" for the constructor and
\* the gateway client or "reads" for my_votes and status.
Observed(op) ==
    \/ op = observe
    \/ observe = "governed" /\ op \in GovernedMethods
    \/ observe = "remote" /\ op \in RemoteMethods
    \/ observe = "outbox" /\ op \in OutboxMethods
    \/ observe = "signed" /\ op \in SignedMethods
    \/ observe = "gateway" /\ op \in GatewayMethods
    \/ observe = "reads" /\ op \in ReadMethods

Ret(result) == last' = IF Observed(result.op) THEN result ELSE Unobserved

---------------------------------------------------------------------------
(* ArchonService: one action per method, for a call that runs alone *)

\* A thread's call record: the program counter and the locals of vote, of
\* prune (deleted: the rows the call's first DELETE removed), of provision
\* and of bind_nostr/bind_cln (seen: the identity row the call read first;
\* written: its write has run; first: no other call had written before it).
Idle == [pc |-> "idle", poll_id |-> 0, choice |-> "", reason |-> "",
         poll |-> Null, seen_votes |-> 0, voter_id |-> "", voted_at |-> 0,
         inserted |-> "unset", error |-> "",
         now_ts |-> 0, before_ts |-> 0, deleted |-> {},
         method |-> "", force |-> FALSE, seen |-> Null, did |-> "",
         governance_tier |-> "", source |-> "", created_at |-> 0,
         written |-> FALSE, first |-> FALSE,
         binding_type |-> "", subject |-> "", signature |-> NoSignature]

InitObserving(method, network) ==
    /\ identity = {}
    /\ bindings = {}
    /\ polls = {}
    /\ votes = {}
    /\ outbox = {}
    /\ now = 0
    /\ nextDid = 0
    /\ nextPoll = 0
    /\ network_enabled = network
    /\ observe = method
    /\ last = Unobserved
    /\ calls = [t \in Threads |-> Idle]

Init == InitObserving("none", FALSE)

\* A faulty variant of gateway_reply: an answer without the value is not
\* told from one with it.
gateway_reply_unchecked(gw) == IF gw = "raise" THEN "" ELSE gw

\* What a call keeps of the gateway client's answer: the DID, the remote
\* poll id or "true"; "" when the client raised (caught and logged) or
\* answered None or False.
gateway_reply(gw) == IF gw \in {"raise", "none", "false"} THEN "" ELSE gw

\* time_fn() moves on between calls.
Tick ==
    /\ now < MaxTime
    /\ now' = now + 1
    /\ last' = Unobserved
    /\ UNCHANGED <<store, nextDid, nextPoll, network_enabled, outbox, observe, calls>>

\* A faulty variant of AlreadyProvisioned: the force flag is read the wrong way round.
AlreadyProvisionedInverted(id, force) == id # Null /\ force

\* provision's early return: an identity exists and the call is not forced.
AlreadyProvisioned(id, force) == id # Null /\ ~force

\* A faulty variant of carried_tier: a re-provision starts over at basic.
carried_tier_reset(id) == "basic"

\* The tier provision writes: the one the identity had, basic for a new one.
carried_tier(id) == IF id # Null THEN id.governance_tier ELSE "basic"

\* already_provisioned = FALSE in the result stands for the key being absent;
\* log_removed is the number of orphaned bindings the call logs as removed;
\* gateway is the gateway client's answer, "" when it was not called.
provision(force, gw) ==
    LET id == get_identity(identity)
        remote == IF network_enabled THEN gateway_reply(gw) ELSE ""
        did == IF remote # "" THEN remote ELSE Did(nextDid + 1)
        source == IF remote # "" THEN "archon-gateway" ELSE "local-fallback"
        governance_tier == carried_tier(id)
        kept == IF id # Null /\ id.did # "" /\ id.did # did
                THEN delete_bindings_for_did(bindings, id.did)
                ELSE bindings
    IN  /\ UNCHANGED <<polls, votes, now, nextPoll, network_enabled, outbox, observe, calls>>
        /\ IF AlreadyProvisioned(id, force)
           THEN /\ Ret([op |-> "provision", force |-> force, ok |-> TRUE,
                        already_provisioned |-> TRUE, did |-> id.did,
                        governance_tier |-> id.governance_tier,
                        source |-> id.source, log_removed |-> 0,
                        gateway |-> ""])
                /\ UNCHANGED <<identity, bindings, nextDid>>
           ELSE /\ remote = "" => nextDid < MaxDids
                /\ nextDid' = IF remote # "" THEN nextDid ELSE nextDid + 1
                /\ bindings' = kept
                /\ identity' = upsert_identity(identity, did, governance_tier,
                                               source, now)
                /\ Ret([op |-> "provision", force |-> force, ok |-> TRUE,
                        already_provisioned |-> FALSE, did |-> did,
                        governance_tier |-> governance_tier,
                        source |-> source,
                        log_removed |-> Cardinality(bindings) - Cardinality(kept),
                        gateway |-> IF network_enabled THEN gw ELSE ""])

\* A faulty variant of InsufficientBond: the comparison is off by one.
InsufficientBondOffByOne(target_tier, bond_sats) ==
    target_tier = "governance" /\ bond_sats + 1 < min_governance_bond_sats

\* upgrade's bond check.
InsufficientBond(target_tier, bond_sats) ==
    target_tier = "governance" /\ bond_sats < min_governance_bond_sats

\* int(x): the int itself, or ValueError for the text, which is no number.
int(x) ==
    IF x.type = "int" THEN [raised |-> "", value |-> x.value]
    ELSE [raised |-> "ValueError", value |-> 0]

\* local_balance_sats is the channel balance the node would report at the
\* time of the call; upgrade does not ask for it.  required_bond_sats = 0 in
\* the result stands for the key being absent, and error 'exception' for an
\* exception that leaves the call.  int(bond_sats) is evaluated only for
\* target_tier 'governance', after the identity is read.
upgrade(target_tier, bond_sats, local_balance_sats) ==
    LET id == get_identity(identity)
        parsed == int(bond_sats)
        R(error) == [op |-> "upgrade", target_tier |-> target_tier,
                     bond_sats |-> parsed.value, bond_sats_text |-> bond_sats.text,
                     error |-> error,
                     required_bond_sats |->
                         IF error = "insufficient bond for governance tier"
                         THEN min_governance_bond_sats ELSE 0,
                     local_balance_sats |-> local_balance_sats]
    IN  /\ UNCHANGED <<bindings, polls, votes, now, nextDid, nextPoll,
                       network_enabled, outbox, observe, calls>>
        /\ IF target_tier \notin VALID_GOVERNANCE_TIERS
           THEN Ret(R("invalid target_tier")) /\ UNCHANGED identity
           ELSE IF id = Null
           THEN Ret(R("identity not provisioned")) /\ UNCHANGED identity
           ELSE IF target_tier = "governance" /\ parsed.raised # ""
           THEN Ret(R("exception")) /\ UNCHANGED identity
           ELSE IF InsufficientBond(target_tier, parsed.value)
           THEN Ret(R("insufficient bond for governance tier")) /\ UNCHANGED identity
           ELSE /\ identity' = update_governance_tier(identity, target_tier, now)
                /\ Ret(R(""))

\* A faulty variant of NotOwned: the ownership of the DID is not looked at.
NotOwnedUnchecked(id, resolved_did) == FALSE

\* bind_nostr's and bind_cln's check of the resolved DID against the identity's.
NotOwned(id, resolved_did) == resolved_did # id.did

bind(binding_type, subject, did, sign) ==
    LET id == get_identity(identity)
        resolved_did == IF did # "" THEN did ELSE IF id # Null THEN id.did ELSE ""
        signed == _sign_message(<<binding_type, resolved_did, subject, now>>, sign)
        R(error) == [op |-> "bind", binding_type |-> binding_type,
                     subject |-> subject, did |-> resolved_did, error |-> error,
                     signmessage |-> IF error \in {"", "signing failed", "exception"}
                                     THEN sign ELSE ""]
    IN  /\ UNCHANGED <<identity, polls, votes, now, nextDid, nextPoll,
                       network_enabled, outbox, observe, calls>>
        /\ IF did # "" /\ ~_is_valid_did(did)
           THEN Ret(R("invalid did format")) /\ UNCHANGED bindings
           ELSE IF id = Null \/ resolved_did = ""
           THEN Ret(R("identity not provisioned")) /\ UNCHANGED bindings
           ELSE IF ~_is_valid_did(resolved_did)
           THEN Ret(R("invalid did format")) /\ UNCHANGED bindings
           ELSE IF NotOwned(id, resolved_did)
           THEN Ret(R("cannot bind to a DID not owned by this node"))
                /\ UNCHANGED bindings
           ELSE IF signed.raised = "RuntimeError"
           THEN Ret(R("signing failed")) /\ UNCHANGED bindings
           ELSE IF signed.raised # ""
           THEN Ret(R("exception")) /\ UNCHANGED bindings
           ELSE /\ bindings' = upsert_binding(
                        bindings, <<resolved_did, binding_type, subject>>,
                        resolved_did, binding_type, subject,
                        signed.signature, now)
                /\ Ret(R(""))

bind_nostr(nostr_pubkey, did, sign) ==
    IF ~_is_valid_nostr_pubkey(nostr_pubkey)
    THEN /\ Ret([op |-> "bind", binding_type |-> "nostr", subject |-> nostr_pubkey,
                 did |-> did, error |-> "invalid nostr_pubkey", signmessage |-> ""])
         /\ UNCHANGED <<store, now, nextDid, nextPoll, network_enabled, outbox, observe, calls>>
    ELSE bind("nostr", nostr_pubkey, did, sign)

bind_cln(cln_pubkey, did, sign, pk) ==
    LET subject == IF cln_pubkey # "" THEN cln_pubkey ELSE pk
    IN  IF ~_is_valid_cln_pubkey(subject)
        THEN /\ Ret([op |-> "bind", binding_type |-> "cln", subject |-> subject,
                     did |-> did, error |-> "invalid cln_pubkey", signmessage |-> ""])
             /\ UNCHANGED <<store, now, nextDid, nextPoll, network_enabled, outbox, observe, calls>>
        ELSE bind("cln", subject, did, sign)

\* A faulty variant of PollCapacityReached: the comparison is off by one.
PollCapacityReachedOffByOne(total) == total > MAX_TOTAL_POLLS

\* poll_create's capacity check on count_total_polls().
PollCapacityReached(total) == total >= MAX_TOTAL_POLLS

poll_create(options, deadline, gw) ==
    LET tier_error == _require_governance(identity)
        normalized == _normalize_poll_options(options)
        poll_id == nextPoll + 1
        remote_poll_id == IF network_enabled THEN gateway_reply(gw) ELSE ""
        R(error, pid, remote) ==
            [op |-> "poll_create", error |-> error, poll_id |-> pid,
             remote_poll_id |-> remote, deadline |-> deadline,
             gateway |-> IF network_enabled /\ pid # 0 THEN gw ELSE ""]
    IN  /\ UNCHANGED <<identity, bindings, votes, now, nextDid,
                       network_enabled, outbox, observe, calls>>
        /\ IF tier_error # ""
           THEN Ret(R(tier_error, 0, "")) /\ UNCHANGED <<polls, nextPoll>>
           ELSE IF PollCapacityReached(count_total_polls(polls))
           THEN Ret(R("poll capacity reached", 0, "")) /\ UNCHANGED <<polls, nextPoll>>
           ELSE IF deadline <= now
           THEN Ret(R("invalid deadline", 0, "")) /\ UNCHANGED <<polls, nextPoll>>
           ELSE IF normalized = Null
           THEN Ret(R("invalid options", 0, "")) /\ UNCHANGED <<polls, nextPoll>>
           ELSE /\ nextPoll < MaxPollIds
                /\ nextPoll' = poll_id
                /\ polls' = create_poll(polls, poll_id, remote_poll_id,
                                        normalized.cleaned, deadline)
                /\ Ret(R("", poll_id, remote_poll_id))

\* A faulty variant of VoteCapacityReached: the comparison is off by one.
VoteCapacityReachedOffByOne(total) == total > MAX_TOTAL_VOTES

\* vote's capacity check on count_total_votes().
VoteCapacityReached(total) == total >= MAX_TOTAL_VOTES

\* A faulty variant of InvalidChoice: any non-empty choice is accepted.
InvalidChoiceUnchecked(choice, options) == choice = ""

\* vote's test of the choice against the poll's decoded options_json.
InvalidChoice(choice, options) == choice \notin Range(options)

\* A faulty variant of VoteResult: add_vote's return value is not looked at.
VoteResultIgnoringInsert(inserted) == ""

\* What vote returns after add_vote: "" stands for the ok result.
VoteResult(inserted) ==
    IF inserted THEN "" ELSE "vote already exists for this voter and poll"

\* status = "" in the result stands for the key being absent.
vote(poll_id, choice, reason, sign, gw) ==
    LET tier_error == _require_governance(identity)
        poll == get_poll(polls, poll_id)
        refreshed == _refresh_poll_state(polls, poll, now)
        voter_id == _voter_id(identity, NodePubkey)
        voted_at == now
        signed == _sign_message(<<poll_id, voter_id, choice, reason, voted_at>>, sign)
        row == [vote_id |-> <<poll_id, voter_id, choice, voted_at>>,
                poll_id |-> poll_id, voter_id |-> voter_id, choice |-> choice,
                reason |-> reason, voted_at |-> voted_at,
                signature |-> signed.signature]
        added == add_vote(votes, refreshed.polls, row)
        submitted == network_enabled /\ refreshed.poll.remote_poll_id # ""
        remote_vote_sent == submitted /\ gateway_reply(gw) = "true"
        R(error, status, voter, sent) ==
            [op |-> "vote", poll_id |-> poll_id, choice |-> choice,
             error |-> error, status |-> status, voter_id |-> voter,
             remote_vote_sent |-> sent,
             signmessage |-> IF error \in {"vote signing failed", "exception"}
                                \/ voter # ""
                             THEN sign ELSE "",
             gateway |-> IF error = "" /\ voter # "" /\ submitted THEN gw ELSE ""]
    IN  /\ UNCHANGED <<identity, bindings, now, nextDid, nextPoll,
                       network_enabled, outbox, observe, calls>>
        /\ IF tier_error # ""
           THEN Ret(R(tier_error, "", "", FALSE)) /\ UNCHANGED <<polls, votes>>
           ELSE IF VoteCapacityReached(count_total_votes(votes))
           THEN Ret(R("vote capacity reached", "", "", FALSE))
                /\ UNCHANGED <<polls, votes>>
           ELSE IF poll = Null
           THEN Ret(R("poll not found", "", "", FALSE)) /\ UNCHANGED <<polls, votes>>
           ELSE /\ polls' = refreshed.polls
                /\ IF refreshed.poll.status # "active"
                   THEN Ret(R("poll is not active", refreshed.poll.status, "", FALSE))
                        /\ UNCHANGED votes
                   ELSE IF InvalidChoice(choice, refreshed.poll.options)
                   THEN Ret(R("invalid choice", "", "", FALSE)) /\ UNCHANGED votes
                   ELSE IF signed.raised = "RuntimeError"
                   THEN Ret(R("vote signing failed", "", "", FALSE)) /\ UNCHANGED votes
                   ELSE IF signed.raised # ""
                   THEN Ret(R("exception", "", "", FALSE)) /\ UNCHANGED votes
                   ELSE /\ votes' = added.votes
                        /\ Ret(R(VoteResult(added.inserted), "", voter_id,
                                 added.inserted /\ remote_vote_sent))

poll_status(poll_id) ==
    LET poll == get_poll(polls, poll_id)
        refreshed == _refresh_poll_state(polls, poll, now)
        vs == list_votes_for_poll(votes, poll_id)
    IN  /\ UNCHANGED <<identity, bindings, votes, now, nextDid, nextPoll,
                       network_enabled, outbox, observe, calls>>
        /\ IF poll = Null
           THEN /\ Ret([op |-> "poll_status", poll_id |-> poll_id,
                        error |-> "poll not found"])
                /\ UNCHANGED polls
           ELSE /\ polls' = refreshed.polls
                /\ Ret([op |-> "poll_status", poll_id |-> poll_id, error |-> "",
                        status |-> refreshed.poll.status,
                        deadline |-> refreshed.poll.deadline,
                        tally |-> Tally(refreshed.poll.options, vs),
                        vote_count |-> Cardinality(vs),
                        voters |-> VotersOf(vs)])

prune(retention_days) ==
    LET now_ts == now
        completed == complete_expired_polls(polls, now_ts)
        cutoff == now_ts - (retention_days * SECONDS_PER_DAY)
        pruned == prune_completed_polls(completed, votes, cutoff)
    IN  /\ UNCHANGED <<identity, bindings, now, nextDid, nextPoll,
                       network_enabled, outbox, observe, calls>>
        /\ IF retention_days < 1
           THEN /\ Ret([op |-> "prune", retention_days |-> retention_days,
                        error |-> "retention_days must be a positive integer"])
                /\ UNCHANGED <<polls, votes>>
           ELSE /\ polls' = pruned.polls
                /\ votes' = pruned.votes
                /\ Ret([op |-> "prune", retention_days |-> retention_days,
                        error |-> "",
                        polls_completed |-> Cardinality(polls \ completed),
                        polls_removed |-> pruned.removed])

my_votes(limit) ==
    LET capped == IF limit > MAX_MY_VOTES THEN MAX_MY_VOTES ELSE limit
        voter_id == _voter_id(identity, NodePubkey)
        all == votes_joined_for_voter(votes, polls, voter_id)
    IN  /\ UNCHANGED <<store, now, nextDid, nextPoll, network_enabled, outbox, observe, calls>>
        /\ IF limit <= 0
           THEN Ret([op |-> "my_votes", limit |-> limit,
                     error |-> "limit must be positive"])
           ELSE \E rows \in SUBSET all :
                  /\ IsNewestFirstPrefix(rows, all, capped)
                  /\ Ret([op |-> "my_votes", limit |-> limit, error |-> "",
                          voter_id |-> voter_id, count |-> Cardinality(rows),
                          votes |-> rows])

status ==
    /\ UNCHANGED <<store, now, nextDid, nextPoll, network_enabled, outbox, observe, calls>>
    /\ Ret([op |-> "status", identity |-> get_identity(identity),
            bindings |-> [t \in {"nostr", "cln"} |->
                            Cardinality({b \in bindings : b.binding_type = t})],
            active_polls |-> count_polls_by_status(polls, "active"),
            completed_polls |-> count_polls_by_status(polls, "completed"),
            total_polls |-> count_total_polls(polls),
            total_votes |-> count_total_votes(votes)])

\* The gateway replies only where the service calls it.
GatewayCalled(replies) == IF network_enabled THEN replies ELSE {"raise"}

Next ==
    \/ Tick
    \/ \E force \in BOOLEAN, gw \in GatewayCalled(GatewayProvisionReplies) :
          provision(force, gw)
    \/ \E target_tier \in TargetTiers, bond_sats \in BondInputs,
          local_balance_sats \in BalanceInputs :
          upgrade(target_tier, bond_sats, local_balance_sats)
    \/ \E options \in OptionLists, deadline \in Times,
          gw \in GatewayCalled(GatewayPollReplies) :
          poll_create(options, deadline, gw)
    \/ \E poll_id \in PollIds, choice \in Choices, reason \in Reasons,
          sign \in SignReplies, gw \in GatewayCalled(GatewayVoteReplies) :
          vote(poll_id, choice, reason, sign, gw)
    \/ \E poll_id \in PollIds : poll_status(poll_id)
    \/ \E retention_days \in RetentionInputs : prune(retention_days)
    \/ \E limit \in LimitInputs : my_votes(limit)
    \/ status

Spec == Init /\ [][Next]_vars

\* vote between the calls that give it an identity of the governance tier
\* and polls, with every choice and every deadline.
NextVote ==
    \/ Tick
    \/ \E force \in BOOLEAN, gw \in GatewayCalled(GatewayProvisionReplies) :
          provision(force, gw)
    \/ upgrade("governance", PyInt(min_governance_bond_sats), 0)
    \/ \E deadline \in Times, gw \in GatewayCalled(GatewayPollReplies) :
          poll_create(<<"yes", "no">>, deadline, gw)
    \/ \E poll_id \in PollIds, choice \in Choices,
          gw \in GatewayCalled(GatewayVoteReplies) :
          vote(poll_id, choice, "needed", "ok", gw)
    \/ prune(1)

SpecVote == InitObserving("vote", FALSE) /\ [][NextVote]_vars

\* The methods that write polls and votes, with the identity they need:
\* signmessage answers and the bond is sufficient.
NextPolls ==
    \/ Tick
    \/ \E force \in BOOLEAN, gw \in GatewayCalled(GatewayProvisionReplies) :
          provision(force, gw)
    \/ upgrade("governance", PyInt(min_governance_bond_sats), 0)
    \/ \E options \in OptionLists, deadline \in Times,
          gw \in GatewayCalled(GatewayPollReplies) :
          poll_create(options, deadline, gw)
    \/ \E poll_id \in PollIds, choice \in Choices,
          gw \in GatewayCalled(GatewayVoteReplies) :
          vote(poll_id, choice, "needed", "ok", gw)
    \/ \E poll_id \in PollIds : poll_status(poll_id)
    \/ \E retention_days \in RetentionInputs : prune(retention_days)

SpecPollStatus == InitObserving("poll_status", FALSE) /\ [][NextPolls]_vars

SpecPrune == InitObserving("prune", FALSE) /\ [][NextPolls]_vars

SpecPollCreate == InitObserving("poll_create", FALSE) /\ [][NextPolls]_vars

\* The did argument of a bind call: none, a foreign or malformed one, the
\* identity's, or one this node held before a re-provision.
BindDidInputs ==
    DidInputs \cup {r.did : r \in identity} \cup {Did(n) : n \in 1..nextDid}

\* The identity and its bindings: provision and the bind calls, with every
\* did argument and every answer of signmessage; bind_cln for the node's own
\* pubkey or a malformed one.  The tier, which they do not read, stays basic.
NextBindCalls ==
    \/ Tick
    \/ \E force \in BOOLEAN, gw \in GatewayCalled(GatewayProvisionReplies) :
          provision(force, gw)
    \/ \E nostr_pubkey \in NostrInputs,
          did \in BindDidInputs,
          sign \in SignReplies :
          bind_nostr(nostr_pubkey, did, sign)
    \/ \E cln_pubkey \in {"", "not-hex"},
          did \in BindDidInputs,
          sign \in SignReplies :
          \E pk \in IF cln_pubkey = "" THEN NodePubkeyReplies ELSE {NodePubkey} :
             bind_cln(cln_pubkey, did, sign, pk)

SpecBind == InitObserving("provision", FALSE) /\ [][NextBindCalls]_vars

SpecBindCalls == InitObserving("bind", FALSE) /\ [][NextBindCalls]_vars

\* provision and upgrade, with a bond_sats that is an int or a text.
NextUpgrade ==
    \/ Tick
    \/ \E force \in BOOLEAN, gw \in GatewayCalled(GatewayProvisionReplies) :
          provision(force, gw)
    \/ \E target_tier \in TargetTiers, bond_sats \in BondInputs \cup BondTexts,
          local_balance_sats \in BalanceInputs :
          upgrade(target_tier, bond_sats, local_balance_sats)

SpecUpgradeInputs == InitObserving("upgrade", FALSE) /\ [][NextUpgrade]_vars

\* The methods that write the identity row, with provision observed.
SpecProvision == InitObserving("provision", FALSE) /\ [][NextUpgrade]_vars

\* my_votes and status, between the calls that write polls and votes.
NextReads ==
    \/ Tick
    \/ \E force \in BOOLEAN : provision(force, "raise")
    \/ upgrade("governance", PyInt(min_governance_bond_sats), 0)
    \/ \E deadline \in Times : poll_create(<<"yes", "no">>, deadline, "raise")
    \/ \E poll_id \in PollIds, choice \in {"yes", "no"} :
          vote(poll_id, choice, "needed", "ok", "raise")
    \/ \E poll_id \in PollIds : poll_status(poll_id)
    \/ \E retention_days \in RetentionInputs : prune(retention_days)
    \/ \E limit \in LimitInputs : my_votes(limit)
    \/ status

SpecReads == InitObserving("reads", FALSE) /\ [][NextReads]_vars

\* The methods that sign: the attestations and the ballots, with every
\* answer of rpc.signmessage and with no rpc.
NextSigned ==
    \/ provision(FALSE, "raise")
    \/ upgrade("governance", PyInt(min_governance_bond_sats), 0)
    \/ poll_create(<<"yes", "no">>, MaxTime, "raise")
    \/ \E poll_id \in PollIds, sign \in SignReplies \cup SignUnavailable :
          vote(poll_id, "yes", "needed", sign, "raise")
    \/ \E sign \in SignReplies \cup SignUnavailable :
          bind_nostr("nostr-1", "", sign)
    \/ \E sign \in SignReplies \cup SignUnavailable :
          bind_cln(NodePubkey, "", sign, NodePubkey)

SpecSigned == InitObserving("signed", FALSE) /\ [][NextSigned]_vars

\* Every method, with arguments of poll_create and vote that pass the checks
\* behind _require_governance.
NextGoverned ==
    \/ Tick
    \/ \E force \in BOOLEAN, gw \in GatewayCalled(GatewayProvisionReplies) :
          provision(force, gw)
    \/ \E target_tier \in TargetTiers, bond_sats \in BondInputs,
          local_balance_sats \in BalanceInputs :
          upgrade(target_tier, bond_sats, local_balance_sats)
    \/ \E deadline \in Times, gw \in GatewayCalled(GatewayPollReplies) :
          poll_create(<<"yes", "no">>, deadline, gw)
    \/ \E poll_id \in PollIds, gw \in GatewayCalled(GatewayVoteReplies) :
          vote(poll_id, "yes", "needed", "ok", gw)
    \/ \E poll_id \in PollIds : poll_status(poll_id)
    \/ \E retention_days \in RetentionInputs : prune(retention_days)
    \/ \E limit \in LimitInputs : my_votes(limit)
    \/ status

SpecGoverned == InitObserving("governed", FALSE) /\ [][NextGoverned]_vars

\* The methods that call the gateway, with the upgrade they need; every
\* answer of the gateway, and arguments that pass the local checks.  The
\* calls follow each other within one second of the clock.
NextRemote ==
    \/ \E force \in BOOLEAN, gw \in GatewayCalled(GatewayProvisionReplies) :
          provision(force, gw)
    \/ upgrade("governance", PyInt(min_governance_bond_sats), 0)
    \/ \E gw \in GatewayCalled(GatewayPollReplies) :
          poll_create(<<"yes", "no">>, MaxTime, gw)
    \/ \E poll_id \in PollIds, reason \in Reasons,
          gw \in GatewayCalled(GatewayVoteReplies) :
          vote(poll_id, "yes", reason, "ok", gw)

\* The service constructed with network_enabled and a valid gateway URL.
SpecRemote == InitObserving("remote", TRUE) /\ [][NextRemote]_vars

---------------------------------------------------------------------------
(* Concurrent vote calls.  The connection runs in autocommit                *)
(* (isolation_level=None), so a call is a sequence of statements, each      *)
(* atomic, and other calls run between them.  A step below holds one        *)
(* access to the store or the clock and the local code that follows it.     *)

Call(t) == calls[t]

Goto(t, pc, changes) == calls' = [calls EXCEPT ![t] = [changes EXCEPT !.pc = pc]]

Fail(t, error) == Goto(t, "done", [Call(t) EXCEPT !.error = error])

\* A store with a governance identity and one open poll, as left by
\* provision, upgrade and poll_create at time 0.
InitConc ==
    /\ identity = upsert_identity({}, Did(1), "governance", "local-fallback", 0)
    /\ bindings = {}
    /\ \E deadline \in {1, 2} :
          polls = create_poll({}, 1, "", <<"yes", "no">>, deadline)
    /\ votes = {}
    /\ outbox = {}
    /\ now = 0
    /\ nextDid = 1
    /\ nextPoll = 1
    /\ network_enabled = FALSE
    /\ observe = "none"
    /\ last = Unobserved
    /\ calls = [t \in Threads |-> Idle]

\* vote(poll_id, choice, reason) is called on thread t.
vote_call(t, poll_id, choice, reason) ==
    /\ Call(t).pc = "idle"
    /\ Goto(t, "require_governance",
            [Idle EXCEPT !.poll_id = poll_id, !.choice = choice, !.reason = reason])
    /\ UNCHANGED <<store, now, nextDid, nextPoll, network_enabled, outbox, observe, last>>

\* tier_error = self._require_governance()
vote_require_governance(t) ==
    /\ Call(t).pc = "require_governance"
    /\ IF _require_governance(identity) # ""
       THEN Fail(t, _require_governance(identity))
       ELSE Goto(t, "count_total_votes", Call(t))
    /\ UNCHANGED <<store, now, nextDid, nextPoll, network_enabled, outbox, observe, last>>

\* self.store.count_total_votes() >= MAX_TOTAL_VOTES
vote_count_total_votes(t) ==
    /\ Call(t).pc = "count_total_votes"
    /\ IF VoteCapacityReached(count_total_votes(votes))
       THEN Fail(t, "vote capacity reached")
       ELSE Goto(t, "get_poll",
                 [Call(t) EXCEPT !.seen_votes = count_total_votes(votes)])
    /\ UNCHANGED <<store, now, nextDid, nextPoll, network_enabled, outbox, observe, last>>

\* poll = self.store.get_poll(poll_id)
vote_get_poll(t) ==
    /\ Call(t).pc = "get_poll"
    /\ IF get_poll(polls, Call(t).poll_id) = Null
       THEN Fail(t, "poll not found")
       ELSE Goto(t, "refresh",
                 [Call(t) EXCEPT !.poll = get_poll(polls, Call(t).poll_id)])
    /\ UNCHANGED <<store, now, nextDid, nextPoll, network_enabled, outbox, observe, last>>

\* The checks of vote between the refresh and _voter_id, on the local row.
VoteAfterRefresh(t, call) ==
    IF call.poll.status # "active"
    THEN Goto(t, "done", [call EXCEPT !.error = "poll is not active"])
    ELSE IF InvalidChoice(call.choice, call.poll.options)
    THEN Goto(t, "done", [call EXCEPT !.error = "invalid choice"])
    ELSE Goto(t, "voter_id", call)

\* _refresh_poll_state: the test of the local row against the clock
vote_refresh(t) ==
    /\ Call(t).pc = "refresh"
    /\ IF Call(t).poll.status = "active" /\ Call(t).poll.deadline <= now
       THEN Goto(t, "set_poll_status", Call(t))
       ELSE VoteAfterRefresh(t, Call(t))
    /\ UNCHANGED <<store, now, nextDid, nextPoll, network_enabled, outbox, observe, last>>

\* _refresh_poll_state: self.store.set_poll_status(poll_id, "completed", now)
vote_set_poll_status(t) ==
    /\ Call(t).pc = "set_poll_status"
    /\ polls' = set_poll_status(polls, Call(t).poll_id, "completed")
    /\ Goto(t, "reget_poll", Call(t))
    /\ UNCHANGED <<identity, bindings, votes, now, nextDid, nextPoll,
                   network_enabled, outbox, observe, last>>

\* _refresh_poll_state: updated = self.store.get_poll(...); updated or poll
vote_reget_poll(t) ==
    /\ Call(t).pc = "reget_poll"
    /\ LET updated == get_poll(polls, Call(t).poll_id)
       IN  VoteAfterRefresh(t, [Call(t) EXCEPT
                                  !.poll = IF updated # Null THEN updated ELSE @])
    /\ UNCHANGED <<store, now, nextDid, nextPoll, network_enabled, outbox, observe, last>>

\* voter_id = self._voter_id()
vote_voter_id(t) ==
    /\ Call(t).pc = "voter_id"
    /\ Goto(t, "sign", [Call(t) EXCEPT !.voter_id = _voter_id(identity, NodePubkey)])
    /\ UNCHANGED <<store, now, nextDid, nextPoll, network_enabled, outbox, observe, last>>

\* voted_at = self._now(); signature = self._sign_message(canonical, True)
vote_sign(t, sign) ==
    /\ Call(t).pc = "sign"
    /\ IF sign = "empty" THEN Fail(t, "vote signing failed")
       ELSE IF sign = "raise" THEN Fail(t, "exception")
       ELSE Goto(t, "add_vote", [Call(t) EXCEPT !.voted_at = now])
    /\ UNCHANGED <<store, now, nextDid, nextPoll, network_enabled, outbox, observe, last>>

\* inserted = self.store.add_vote(...), and the result that follows from it
vote_add_vote(t) ==
    LET c == Call(t)
        row == [vote_id |-> <<c.poll_id, c.voter_id, c.choice, c.voted_at>>,
                poll_id |-> c.poll_id, voter_id |-> c.voter_id,
                choice |-> c.choice, reason |-> c.reason,
                voted_at |-> c.voted_at,
                signature |-> Signature(<<c.poll_id, c.voter_id, c.choice,
                                          c.reason, c.voted_at>>)]
        added == add_vote(votes, polls, row)
    IN  /\ c.pc = "add_vote"
        /\ votes' = added.votes
        /\ Goto(t, "done",
                [c EXCEPT !.inserted = IF added.inserted THEN "true" ELSE "false",
                          !.error = VoteResult(added.inserted)])
        /\ UNCHANGED <<identity, bindings, polls, now, nextDid, nextPoll,
                       network_enabled, outbox, observe, last>>

NextConc ==
    \/ \E t \in Threads, poll_id \in PollIds, choice \in Choices,
          reason \in Reasons :
          vote_call(t, poll_id, choice, reason)
    \/ \E t \in Threads : vote_require_governance(t)
    \/ \E t \in Threads : vote_count_total_votes(t)
    \/ \E t \in Threads : vote_get_poll(t)
    \/ \E t \in Threads : vote_refresh(t)
    \/ \E t \in Threads : vote_set_poll_status(t)
    \/ \E t \in Threads : vote_reget_poll(t)
    \/ \E t \in Threads : vote_voter_id(t)
    \/ \E t \in Threads, sign \in SignReplies : vote_sign(t, sign)
    \/ \E t \in Threads : vote_add_vote(t)
    \/ Tick
    \/ \E gw \in GatewayCalled(GatewayProvisionReplies) : provision(TRUE, gw)
    \/ \E poll_id \in PollIds : poll_status(poll_id)
    \/ \E retention_days \in RetentionInputs : prune(retention_days)

SpecConc == InitConc /\ [][NextConc]_vars

---------------------------------------------------------------------------
(* prune running statement by statement on thread t, with whole calls of    *)
(* the other methods between its statements.                                *)

\* prune(retention_days) is called on thread t: the argument check, the
\* clock and the cutoff.
prune_call(t, retention_days) ==
    /\ Call(t).pc = "idle"
    /\ IF retention_days < 1
       THEN Fail(t, "retention_days must be a positive integer")
       ELSE Goto(t, "complete_expired_polls",
                 [Idle EXCEPT !.now_ts = now,
                              !.before_ts = now - retention_days * SECONDS_PER_DAY])
    /\ UNCHANGED <<store, now, nextDid, nextPoll, network_enabled, outbox, observe, last>>

\* completed = self.store.complete_expired_polls(now_ts=now_ts)
prune_complete_expired_polls(t) ==
    /\ Call(t).pc = "complete_expired_polls"
    /\ polls' = complete_expired_polls(polls, Call(t).now_ts)
    /\ Goto(t, "delete_votes", Call(t))
    /\ UNCHANGED <<identity, bindings, votes, now, nextDid, nextPoll,
                   network_enabled, outbox, observe, last>>

\* prune_completed_polls: DELETE FROM archon_votes WHERE poll_id IN (...)
prune_delete_votes(t) ==
    /\ Call(t).pc = "delete_votes"
    /\ votes' = prune_votes_of_completed(votes, polls, Call(t).before_ts)
    /\ Goto(t, "delete_polls", [Call(t) EXCEPT !.deleted = votes \ votes'])
    /\ UNCHANGED <<identity, bindings, polls, now, nextDid, nextPoll,
                   network_enabled, outbox, observe, last>>

\* prune_completed_polls: DELETE FROM archon_polls ...; a poll that a vote
\* still references makes the statement fail with IntegrityError.
prune_delete_polls(t) ==
    LET kept == prune_polls_completed(polls, Call(t).before_ts)
        referenced == \E v \in votes, p \in polls \ kept : v.poll_id = p.poll_id
    IN  /\ Call(t).pc = "delete_polls"
        /\ IF referenced
           THEN Fail(t, "exception") /\ UNCHANGED polls
           ELSE polls' = kept /\ Goto(t, "done", Call(t))
        /\ UNCHANGED <<identity, bindings, votes, now, nextDid, nextPoll,
                       network_enabled, outbox, observe, last>>

\* The caller takes the result; the thread is free for its next call.
call_return(t) ==
    /\ Call(t).pc = "done"
    /\ calls' = [calls EXCEPT ![t] = Idle]
    /\ UNCHANGED <<store, now, nextDid, nextPoll, network_enabled, outbox, observe, last>>

NextConcPrune ==
    \/ \E t \in Threads, retention_days \in RetentionInputs :
          prune_call(t, retention_days)
    \/ \E t \in Threads : prune_complete_expired_polls(t)
    \/ \E t \in Threads : prune_delete_votes(t)
    \/ \E t \in Threads : prune_delete_polls(t)
    \/ \E t \in Threads : call_return(t)
    \/ Tick
    \/ \E poll_id \in PollIds, choice \in Choices, reason \in Reasons,
          sign \in SignReplies, gw \in GatewayCalled(GatewayVoteReplies) :
          vote(poll_id, choice, reason, sign, gw)
    \/ \E poll_id \in PollIds : poll_status(poll_id)
    \/ \E limit \in LimitInputs : my_votes(limit)

\* A governance identity and one open poll, as in InitConc, with
\* poll_status observed.
InitConcPrune ==
    /\ identity = upsert_identity({}, Did(1), "governance", "local-fallback", 0)
    /\ bindings = {}
    /\ \E deadline \in {1, 2} :
          polls = create_poll({}, 1, "", <<"yes", "no">>, deadline)
    /\ votes = {}
    /\ outbox = {}
    /\ now = 0
    /\ nextDid = 1
    /\ nextPoll = 1
    /\ network_enabled = FALSE
    /\ observe = "poll_status"
    /\ last = Unobserved
    /\ calls = [t \in Threads |-> Idle]

SpecConcPrune == InitConcPrune /\ [][NextConcPrune]_vars

\* vote and prune both statement by statement, on any thread, with whole
\* poll_create calls between their statements.
NextConcVotePrune ==
    \/ \E t \in Threads, poll_id \in PollIds : vote_call(t, poll_id, "yes", "needed")
    \/ \E t \in Threads : vote_require_governance(t)
    \/ \E t \in Threads : vote_count_total_votes(t)
    \/ \E t \in Threads : vote_get_poll(t)
    \/ \E t \in Threads : vote_refresh(t)
    \/ \E t \in Threads : vote_set_poll_status(t)
    \/ \E t \in Threads : vote_reget_poll(t)
    \/ \E t \in Threads : vote_voter_id(t)
    \/ \E t \in Threads : vote_sign(t, "ok")
    \/ \E t \in Threads : vote_add_vote(t)
    \/ \E t \in Threads : prune_call(t, 1)
    \/ \E t \in Threads : prune_complete_expired_polls(t)
    \/ \E t \in Threads : prune_delete_votes(t)
    \/ \E t \in Threads : prune_delete_polls(t)
    \/ \E t \in Threads : call_return(t)
    \/ Tick
    \/ poll_create(<<"yes", "no">>, MaxTime, "raise")

SpecConcVotePrune == InitConcPrune /\ [][NextConcVotePrune]_vars

---------------------------------------------------------------------------
(* Concurrent provision calls, statement by statement.                      *)

\* INSERT OR REPLACE INTO archon_identity, the statement of upsert_identity,
\* with the created_at the method computed before it.
replace_identity(idt, did, governance_tier, source, created_at) ==
    {r \in idt : r.singleton_id # 1} \cup
    {[singleton_id |-> 1, did |-> did, governance_tier |-> governance_tier,
      source |-> source, created_at |-> created_at]}

\* provision(force) is called on thread t.
provision_call(t, force) ==
    /\ Call(t).pc = "idle"
    /\ Goto(t, "provision_get_identity",
            [Idle EXCEPT !.method = "provision", !.force = force])
    /\ UNCHANGED <<store, now, nextDid, nextPoll, network_enabled, outbox, observe, last>>

\* identity = self.store.get_identity(), and the early return
provision_get_identity(t) ==
    LET id == get_identity(identity)
    IN  /\ Call(t).pc = "provision_get_identity"
        /\ IF AlreadyProvisioned(id, Call(t).force)
           THEN Goto(t, "done", [Call(t) EXCEPT !.seen = id, !.did = id.did,
                                   !.governance_tier = id.governance_tier,
                                   !.source = id.source])
           ELSE Goto(t, "provision_did", [Call(t) EXCEPT !.seen = id])
        /\ UNCHANGED <<store, now, nextDid, nextPoll, network_enabled, outbox, observe, last>>

\* The gateway's DID or _generate_local_did, the tier carried over, and the
\* test for bindings of the old DID.
provision_did(t, gw) ==
    LET id == Call(t).seen
        remote == IF network_enabled THEN gateway_reply(gw) ELSE ""
        did == IF remote # "" THEN remote ELSE Did(nextDid + 1)
        call == [Call(t) EXCEPT
                   !.did = did,
                   !.source = IF remote # "" THEN "archon-gateway"
                              ELSE "local-fallback",
                   !.governance_tier = carried_tier(id)]
    IN  /\ Call(t).pc = "provision_did"
        /\ remote = "" => nextDid < MaxDids
        /\ nextDid' = IF remote # "" THEN nextDid ELSE nextDid + 1
        /\ IF id # Null /\ id.did # "" /\ id.did # did
           THEN Goto(t, "provision_delete_bindings", call)
           ELSE Goto(t, "provision_now", call)
        /\ UNCHANGED <<store, now, nextPoll, network_enabled, outbox, observe, last>>

\* removed = self.store.delete_bindings_for_did(old_did)
provision_delete_bindings(t) ==
    /\ Call(t).pc = "provision_delete_bindings"
    /\ bindings' = delete_bindings_for_did(bindings, Call(t).seen.did)
    /\ Goto(t, "provision_now", Call(t))
    /\ UNCHANGED <<identity, polls, votes, now, nextDid, nextPoll,
                   network_enabled, outbox, observe, last>>

\* now_ts = self._now()
provision_now(t) ==
    /\ Call(t).pc = "provision_now"
    /\ Goto(t, "upsert_get_identity", [Call(t) EXCEPT !.now_ts = now])
    /\ UNCHANGED <<store, now, nextDid, nextPoll, network_enabled, outbox, observe, last>>

\* upsert_identity: existing = self.get_identity(); created_at = ...
provision_upsert_get_identity(t) ==
    LET existing == get_identity(identity)
    IN  /\ Call(t).pc = "upsert_get_identity"
        /\ Goto(t, "upsert_replace",
                [Call(t) EXCEPT !.created_at = IF existing # Null
                                               THEN existing.created_at
                                               ELSE Call(t).now_ts])
        /\ UNCHANGED <<store, now, nextDid, nextPoll, network_enabled, outbox, observe, last>>

\* upsert_identity: INSERT OR REPLACE INTO archon_identity, and the ok result
provision_upsert_replace(t) ==
    LET c == Call(t)
    IN  /\ c.pc = "upsert_replace"
        /\ identity' = replace_identity(identity, c.did, c.governance_tier,
                                        c.source, c.created_at)
        /\ Goto(t, "done",
                [c EXCEPT !.written = TRUE,
                          !.first = \A u \in Threads : ~Call(u).written])
        /\ UNCHANGED <<bindings, polls, votes, now, nextDid, nextPoll,
                       network_enabled, outbox, observe, last>>

\* An empty store: the node was never provisioned.
InitConcProvision ==
    /\ identity = {}
    /\ bindings = {}
    /\ polls = {}
    /\ votes = {}
    /\ outbox = {}
    /\ now = 0
    /\ nextDid = 0
    /\ nextPoll = 0
    /\ network_enabled = FALSE
    /\ observe = "none"
    /\ last = Unobserved
    /\ calls = [t \in Threads |-> Idle]

\* One provision call per thread.
NextConcProvision ==
    \/ \E t \in Threads, force \in BOOLEAN : provision_call(t, force)
    \/ \E t \in Threads : provision_get_identity(t)
    \/ \E t \in Threads : provision_did(t, "raise")
    \/ \E t \in Threads : provision_delete_bindings(t)
    \/ \E t \in Threads : provision_now(t)
    \/ \E t \in Threads : provision_upsert_get_identity(t)
    \/ \E t \in Threads : provision_upsert_replace(t)
    \/ Tick

SpecConcProvision == InitConcProvision /\ [][NextConcProvision]_vars

---------------------------------------------------------------------------
(* bind_nostr and bind_cln statement by statement, with a forced            *)
(* re-provision running between their statements.                           *)

\* bind_nostr(subject, did) or bind_cln(subject, did) is called on thread t
\* (for bind_cln, subject is cln_pubkey or the node's own pubkey): the
\* checks of the arguments.
bind_call(t, binding_type, subject, did) ==
    LET call == [Idle EXCEPT !.method = "bind", !.binding_type = binding_type,
                             !.subject = subject, !.did = did]
        valid == IF binding_type = "nostr" THEN _is_valid_nostr_pubkey(subject)
                 ELSE _is_valid_cln_pubkey(subject)
    IN  /\ Call(t).pc = "idle"
        /\ IF ~valid
           THEN Goto(t, "done", [call EXCEPT !.error = "invalid " \o binding_type
                                                       \o "_pubkey"])
           ELSE IF did # "" /\ ~_is_valid_did(did)
           THEN Goto(t, "done", [call EXCEPT !.error = "invalid did format"])
           ELSE Goto(t, "bind_get_identity", call)
        /\ UNCHANGED <<store, now, nextDid, nextPoll, network_enabled, outbox, observe, last>>

\* The checks of the resolved DID against the identity the call read.
BindAfterResolve(t, call) ==
    IF call.did = ""
    THEN Goto(t, "done", [call EXCEPT !.error = "identity not provisioned"])
    ELSE IF ~_is_valid_did(call.did)
    THEN Goto(t, "done", [call EXCEPT !.error = "invalid did format"])
    ELSE IF NotOwned(call.seen, call.did)
    THEN Goto(t, "done",
              [call EXCEPT !.error = "cannot bind to a DID not owned by this node"])
    ELSE Goto(t, "bind_sign", call)

\* identity = self.store.get_identity(); _resolve_did returns a did that was
\* passed without reading the store.
bind_get_identity(t) ==
    LET id == get_identity(identity)
        call == [Call(t) EXCEPT !.seen = id]
    IN  /\ Call(t).pc = "bind_get_identity"
        /\ IF id = Null
           THEN Goto(t, "done", [call EXCEPT !.error = "identity not provisioned"])
           ELSE IF call.did # ""
           THEN BindAfterResolve(t, call)
           ELSE Goto(t, "bind_resolve_did", call)
        /\ UNCHANGED <<store, now, nextDid, nextPoll, network_enabled, outbox, observe, last>>

\* _resolve_did(""): identity = self.store.get_identity(), read again
bind_resolve_did(t) ==
    LET id == get_identity(identity)
    IN  /\ Call(t).pc = "bind_resolve_did"
        /\ BindAfterResolve(t, [Call(t) EXCEPT
                                  !.did = IF id # Null THEN id.did ELSE ""])
        /\ UNCHANGED <<store, now, nextDid, nextPoll, network_enabled, outbox, observe, last>>

\* _build_attestation: the timestamp and rpc.signmessage
bind_sign(t, sign) ==
    LET c == Call(t)
        signed == _sign_message(<<c.binding_type, c.did, c.subject, now>>, sign)
    IN  /\ c.pc = "bind_sign"
        /\ IF signed.raised = "RuntimeError" THEN Fail(t, "signing failed")
           ELSE IF signed.raised # "" THEN Fail(t, "exception")
           ELSE Goto(t, "bind_now", [c EXCEPT !.signature = signed.signature])
        /\ UNCHANGED <<store, now, nextDid, nextPoll, network_enabled, outbox, observe, last>>

\* now_ts = self._now()
bind_now(t) ==
    /\ Call(t).pc = "bind_now"
    /\ Goto(t, "bind_upsert_binding", [Call(t) EXCEPT !.now_ts = now])
    /\ UNCHANGED <<store, now, nextDid, nextPoll, network_enabled, outbox, observe, last>>

\* self.store.upsert_binding(...), and the ok result
bind_upsert_binding(t) ==
    LET c == Call(t)
    IN  /\ c.pc = "bind_upsert_binding"
        /\ bindings' = upsert_binding(bindings, <<c.did, c.binding_type, c.subject>>,
                                      c.did, c.binding_type, c.subject,
                                      c.signature, c.now_ts)
        /\ Goto(t, "done", [c EXCEPT !.written = TRUE])
        /\ UNCHANGED <<identity, polls, votes, now, nextDid, nextPoll,
                       network_enabled, outbox, observe, last>>

\* A provisioned node without bindings.
InitConcBind ==
    /\ identity = upsert_identity({}, Did(1), "basic", "local-fallback", 0)
    /\ bindings = {}
    /\ polls = {}
    /\ votes = {}
    /\ outbox = {}
    /\ now = 0
    /\ nextDid = 1
    /\ nextPoll = 0
    /\ network_enabled = FALSE
    /\ observe = "none"
    /\ last = Unobserved
    /\ calls = [t \in Threads |-> Idle]

\* One call per thread: bind_nostr, bind_cln or provision(force=True).
NextConcBind ==
    \/ \E t \in Threads, nostr_pubkey \in NostrInputs, did \in DidInputs :
          bind_call(t, "nostr", nostr_pubkey, did)
    \/ \E t \in Threads, cln_pubkey \in ClnInputs, did \in DidInputs :
          bind_call(t, "cln", IF cln_pubkey # "" THEN cln_pubkey ELSE NodePubkey, did)
    \/ \E t \in Threads : bind_get_identity(t)
    \/ \E t \in Threads : bind_resolve_did(t)
    \/ \E t \in Threads, sign \in SignReplies : bind_sign(t, sign)
    \/ \E t \in Threads : bind_now(t)
    \/ \E t \in Threads : bind_upsert_binding(t)
    \/ \E t \in Threads : provision_call(t, TRUE)
    \/ \E t \in Threads : provision_get_identity(t)
    \/ \E t \in Threads : provision_did(t, "raise")
    \/ \E t \in Threads : provision_delete_bindings(t)
    \/ \E t \in Threads : provision_now(t)
    \/ \E t \in Threads : provision_upsert_get_identity(t)
    \/ \E t \in Threads : provision_upsert_replace(t)
    \/ Tick

SpecConcBind == InitConcBind /\ [][NextConcBind]_vars

---------------------------------------------------------------------------
(* The outbox.  The plugin entry point hive-archon-process-outbox and the    *)
(* tests call ArchonStore's outbox methods and ArchonService.process_outbox, *)
(* which archon_service.py does not define; they are modelled here as the    *)
(* specification describes them (sections 3 "Outbox entry", 4.1 "Outbox"     *)
(* and 4.3 "process_outbox").                                                *)

MaxEntries == 2            \* entry ids in use
MaxRetryCount == 3         \* retry_count is not bumped past this

DEFAULT_MAX_RETRIES == 2   \* 5 in the specification
OUTBOX_BACKOFF_BASE == 1   \* 30 seconds in the specification
OUTBOX_BACKOFF_CAP == 2    \* 600 seconds in the specification

EntryIds == 1..MaxEntries
OutboxOperations == {"provision", "create_poll", "submit_vote"}
MaxRetriesInputs == {1, DEFAULT_MAX_RETRIES}
OutboxErrors == {"connection refused"}

\* The operation whose retry the entry entry_id stands for.
OperationQueued(entry_id) == IF entry_id = 1 THEN "provision" ELSE "create_poll"

Min(a, b) == IF a <= b THEN a ELSE b

get_outbox_entry(ob, entry_id) ==
    IF \E e \in ob : e.entry_id = entry_id
    THEN CHOOSE e \in ob : e.entry_id = entry_id
    ELSE Null

\* add: a new entry is pending, never tried, and due at once.
add_outbox_entry(ob, entry_id, operation, payload_json, now_ts, max_retries) ==
    IF \E e \in ob : e.entry_id = entry_id
    THEN ob
    ELSE ob \cup {[entry_id |-> entry_id, operation |-> operation,
                   payload_json |-> payload_json, status |-> "pending",
                   retry_count |-> 0, max_retries |-> max_retries,
                   next_retry_at |-> now_ts, last_error |-> "",
                   created_at |-> now_ts]}

\* The pending entries that are due at now_ts.
OutboxDue(ob, now_ts) ==
    {e \in ob : e.status = "pending" /\ e.next_retry_at <= now_ts}

Oldest(es) ==
    CHOOSE e \in es : \A f \in es :
        \/ e.created_at < f.created_at
        \/ e.created_at = f.created_at /\ e.entry_id <= f.entry_id

RECURSIVE OldestFirst(_, _)
OldestFirst(es, limit) ==
    IF es = {} \/ limit <= 0
    THEN <<>>
    ELSE <<Oldest(es)>> \o OldestFirst(es \ {Oldest(es)}, limit - 1)

\* list_pending: the due entries, oldest first, at most limit of them.
list_outbox_pending(ob, now_ts, limit) == OldestFirst(OutboxDue(ob, now_ts), limit)

\* mark_success: the entry becomes succeeded.
mark_outbox_success(ob, entry_id) ==
    {IF e.entry_id = entry_id THEN [e EXCEPT !.status = "succeeded"] ELSE e : e \in ob}

\* A faulty variant of StatusAfterFailure: one attempt too many is allowed.
StatusAfterFailureOffByOne(entry_status, retry_count, max_retries) ==
    IF retry_count > max_retries THEN "exhausted" ELSE entry_status

\* The status of an entry after a failed attempt that brought its
\* retry_count to retry_count.
StatusAfterFailure(entry_status, retry_count, max_retries) ==
    IF retry_count >= max_retries THEN "exhausted" ELSE entry_status

\* mark_failed: retry_count is bumped, the error and the next attempt's time
\* are recorded, and the entry is exhausted once retry_count >= max_retries.
mark_outbox_failed(ob, entry_id, error, next_retry_at) ==
    {IF e.entry_id = entry_id
     THEN [e EXCEPT !.retry_count = e.retry_count + 1,
                    !.last_error = error,
                    !.next_retry_at = next_retry_at,
                    !.status = StatusAfterFailure(e.status, e.retry_count + 1,
                                                  e.max_retries)]
     ELSE e : e \in ob}

\* A faulty variant of OutboxPrunable: the status is not looked at.
OutboxPrunableAnyStatus(ob, before_ts) == {e \in ob : e.created_at < before_ts}

\* The entries prune removes: the ones that are not pending and were
\* created before the cutoff.
OutboxPrunable(ob, before_ts) ==
    {e \in ob : e.status # "pending" /\ e.created_at < before_ts}

prune_outbox(ob, before_ts) == ob \ OutboxPrunable(ob, before_ts)

\* process_outbox's delay before the next attempt of an entry that was tried
\* retry_count times before.
Backoff(retry_count) ==
    Min(OUTBOX_BACKOFF_CAP, OUTBOX_BACKOFF_BASE * 2 ^ retry_count)

\* process_outbox's loop over the loaded entries: the gateway accepts the
\* entries of `accepted` and fails on the others.
RECURSIVE dispatch_all(_, _, _, _)
dispatch_all(ob, loaded, accepted, now_ts) ==
    IF loaded = <<>>
    THEN ob
    ELSE LET e == Head(loaded)
             ob1 == IF e.entry_id \in accepted
                    THEN mark_outbox_success(ob, e.entry_id)
                    ELSE mark_outbox_failed(ob, e.entry_id, "connection refused",
                                            now_ts + Backoff(e.retry_count))
         IN  dispatch_all(ob1, Tail(loaded), accepted, now_ts)

OutboxUnchanged ==
    UNCHANGED <<store, now, nextDid, nextPoll, network_enabled, observe, calls>>

store_add_outbox_entry(entry_id, operation, max_retries) ==
    /\ outbox' = add_outbox_entry(outbox, entry_id, operation, <<operation>>,
                                  now, max_retries)
    /\ Ret([op |-> "add_outbox_entry", entry_id |-> entry_id])
    /\ OutboxUnchanged

store_list_outbox_pending(now_ts, limit) ==
    /\ Ret([op |-> "list_outbox_pending", now_ts |-> now_ts, limit |-> limit,
            entries |-> list_outbox_pending(outbox, now_ts, limit)])
    /\ UNCHANGED outbox
    /\ OutboxUnchanged

store_mark_outbox_success(entry_id) ==
    /\ outbox' = mark_outbox_success(outbox, entry_id)
    /\ Ret([op |-> "mark_outbox_success", entry_id |-> entry_id])
    /\ OutboxUnchanged

store_mark_outbox_failed(entry_id, error, next_retry_at) ==
    /\ \A e \in outbox : e.entry_id = entry_id => e.retry_count < MaxRetryCount
    /\ outbox' = mark_outbox_failed(outbox, entry_id, error, next_retry_at)
    /\ Ret([op |-> "mark_outbox_failed", entry_id |-> entry_id, error |-> error,
            next_retry_at |-> next_retry_at])
    /\ OutboxUnchanged

store_prune_outbox(before_ts) ==
    /\ outbox' = prune_outbox(outbox, before_ts)
    /\ Ret([op |-> "prune_outbox", before_ts |-> before_ts,
            removed |-> Cardinality(outbox) - Cardinality(outbox')])
    /\ OutboxUnchanged

process_outbox(max_entries, accepted) ==
    LET loaded == list_outbox_pending(outbox, now, max_entries)
        succeeded == Cardinality({i \in DOMAIN loaded : loaded[i].entry_id \in accepted})
    IN  /\ outbox' = dispatch_all(outbox, loaded, accepted, now)
        /\ Ret([op |-> "process_outbox", max_entries |-> max_entries,
                loaded |-> loaded, processed |-> Len(loaded),
                succeeded |-> succeeded, failed |-> Len(loaded) - succeeded])
        /\ OutboxUnchanged

NextOutbox ==
    \/ Tick
    \/ \E entry_id \in EntryIds, max_retries \in MaxRetriesInputs :
          store_add_outbox_entry(entry_id, OperationQueued(entry_id), max_retries)
    \/ \E limit \in 1..MaxEntries : store_list_outbox_pending(now, limit)
    \/ \E entry_id \in EntryIds : store_mark_outbox_success(entry_id)
    \/ \E entry_id \in EntryIds, error \in OutboxErrors :
          store_mark_outbox_failed(entry_id, error, now + 1)
    \/ \E before_ts \in {now, now + 1} : store_prune_outbox(before_ts)
    \/ \E max_entries \in 1..MaxEntries, accepted \in SUBSET EntryIds :
          process_outbox(max_entries, accepted)

SpecOutbox == InitObserving("outbox", TRUE) /\ [][NextOutbox]_vars

---------------------------------------------------------------------------
(* The gateway URL and ArchonGatewayClient.  A URL is kept by its parts: the *)
(* text is scheme "://" host port path, or host port path without a scheme.  *)

UrlSchemes == {"https", "http", "ftp", ""}
UrlHosts == {"", "localhost", "127.0.0.1", "example.com", "10.0.0.1", "169.254.169.254"}
UrlPorts == {"", ":4224"}
UrlPaths == {"", "/api"}
Urls == [scheme : UrlSchemes, host : UrlHosts, port : UrlPorts, path : UrlPaths]

EmptyUrl == [scheme |-> "", host |-> "", port |-> "", path |-> ""]

\* urlparse(url): without a scheme the text has no netloc, all of it is path.
urlparse(url) ==
    [scheme |-> url.scheme,
     netloc |-> IF url.scheme = "" THEN "" ELSE url.host \o url.port,
     hostname |-> IF url.scheme = "" THEN "" ELSE url.host]

_is_valid_gateway_url(url) ==
    LET parsed == urlparse(url)
    IN  IF url = EmptyUrl THEN FALSE
        ELSE IF parsed.scheme \notin {"https", "http"} THEN FALSE
        ELSE IF parsed.netloc = "" THEN FALSE
        ELSE IF parsed.hostname = "" THEN FALSE
        ELSE TRUE

\* ArchonService(store, gateway_url=..., network_enabled=...) on the store as
\* it is: an invalid URL disables the network integration.
__init__(gateway_url, network) ==
    LET valid == _is_valid_gateway_url(gateway_url)
        enabled == network /\ valid
        kept == IF network /\ ~valid THEN EmptyUrl ELSE gateway_url
    IN  /\ network_enabled' = enabled
        /\ Ret([op |-> "__init__", url |-> gateway_url, network |-> network,
                valid |-> valid, network_enabled |-> enabled, gateway_url |-> kept,
                gateway_client |-> enabled /\ kept # EmptyUrl])
        /\ UNCHANGED <<store, now, nextDid, nextPoll, outbox, observe, calls>>

\* What the host of a request resolves to: the classes of the addresses
\* getaddrinfo returns, none when the resolution fails.
AddressClasses == {"public", "loopback", "link_local", "private", "unique_local",
                   "multicast"}
Resolutions == {{}} \cup {{a} : a \in AddressClasses}
                    \cup {{"public", a} : a \in AddressClasses}

\* _request: urlopen resolves the host and sends the request to whatever
\* address it gets; it raises when the host does not resolve or the server
\* does not answer.
_request(resolved, reply) ==
    IF resolved = {} THEN [sent |-> FALSE, raised |-> "URLError", data |-> ""]
    ELSE IF reply = "raise" THEN [sent |-> TRUE, raised |-> "URLError", data |-> ""]
    ELSE [sent |-> TRUE, raised |-> "", data |-> reply]

ClientUnchanged ==
    UNCHANGED <<store, now, nextDid, nextPoll, network_enabled, outbox, observe, calls>>

\* result "" stands for None.
provision_identity(resolved, reply) ==
    LET r == _request(resolved, reply)
    IN  /\ Ret([op |-> "provision_identity", resolved |-> resolved, sent |-> r.sent,
                raised |-> r.raised,
                result |-> IF r.data = GatewayDid THEN r.data ELSE ""])
        /\ ClientUnchanged

client_create_poll(resolved, reply) ==
    LET r == _request(resolved, reply)
    IN  /\ Ret([op |-> "create_poll", resolved |-> resolved, sent |-> r.sent,
                raised |-> r.raised,
                result |-> IF r.data = RemotePollId THEN r.data ELSE ""])
        /\ ClientUnchanged

\* result "" stands for no result (the call raised).
submit_vote(resolved, reply) ==
    LET r == _request(resolved, reply)
    IN  /\ Ret([op |-> "submit_vote", resolved |-> resolved, sent |-> r.sent,
                raised |-> r.raised,
                result |-> IF r.raised # "" THEN ""
                           ELSE IF r.data = "true" THEN "true" ELSE "false"])
        /\ ClientUnchanged

NextGateway ==
    \/ Tick
    \/ \E gateway_url \in Urls, network \in BOOLEAN : __init__(gateway_url, network)
    \/ \E resolved \in Resolutions, reply \in GatewayProvisionReplies :
          provision_identity(resolved, reply)
    \/ \E resolved \in Resolutions, reply \in GatewayPollReplies :
          client_create_poll(resolved, reply)
    \/ \E resolved \in Resolutions, reply \in GatewayVoteReplies :
          submit_vote(resolved, reply)

SpecGateway == InitObserving("gateway", TRUE) /\ [][NextGateway]_vars

---------------------------------------------------------------------------
(* Claims *)

AlreadyExists == "vote already exists for this voter and poll"

\* C1: in every reachable state the vote table holds at most one row for
\* each (poll_id, voter_id) pair.
C1_OneRowPerPollAndVoter ==
    \A v1, v2 \in votes :
        (v1.poll_id = v2.poll_id /\ v1.voter_id = v2.voter_id) => v1 = v2

\* A vote call was turned down as a duplicate and its pair has its one row.
C1_Witness ==
    /\ last.op = "vote"
    /\ last.error = AlreadyExists
    /\ \E v \in votes : /\ v.poll_id = last.poll_id
                         /\ v.voter_id = _voter_id(identity, NodePubkey)
                         /\ v.choice # last.choice
                         /\ v.voted_at < now

\* C3: every vote row's voter_id is the node's pubkey, never the DID, and
\* vote returns that same pubkey as voter_id.
C3_VoterIdIsNodePubkey ==
    /\ \A v \in votes : v.voter_id = NodePubkey
    /\ (last.op = "vote" /\ last.error = "") => last.voter_id = NodePubkey

\* C4: re-provisioning never yields an additional ballot: a poll never holds
\* more than one ballot of this node.
C4_OneBallotPerPoll ==
    \A p \in polls : Cardinality(list_votes_for_poll(votes, p.poll_id)) <= 1

\* C5: a vote on a poll this node has already voted on, once past the
\* checks that come before the insert, returns 'already exists' and leaves
\* the vote table as it was.
C5_SecondVoteRejected ==
    [][(/\ last'.op = "vote"
        /\ last'.error \in {"", AlreadyExists}
        /\ \E v \in votes : v.poll_id = last'.poll_id)
       => (last'.error = AlreadyExists /\ votes' = votes)]_vars

\* C6: a vote on a poll that is completed, or that is active with its
\* deadline reached, returns an error and adds no row; past the tier and
\* capacity checks the error is 'poll is not active' with status completed,
\* and the poll is stored as completed.
C6_NoVoteOnCompletedPoll ==
    [][\A p \in polls :
         (/\ last'.op = "vote"
          /\ last'.poll_id = p.poll_id
          /\ (p.status = "completed" \/ p.deadline <= now))
         => /\ votes' = votes
            /\ last'.error # ""
            /\ (/\ _require_governance(identity) = ""
                /\ count_total_votes(votes) < MAX_TOTAL_VOTES)
               => /\ last'.error = "poll is not active"
                  /\ last'.status = "completed"
                  /\ get_poll(polls', p.poll_id).status = "completed"]_vars

\* A vote was the first read of an expired poll: it was turned down and the
\* poll is now stored as completed without any ballot.
C6_Witness ==
    /\ last.op = "vote"
    /\ last.error = "poll is not active"
    /\ last.status = "completed"
    /\ \E p \in polls : /\ p.poll_id = last.poll_id
                         /\ p.status = "completed"
                         /\ p.deadline = now
                         /\ list_votes_for_poll(votes, p.poll_id) = {}

\* C7: poll_status on an active poll reports completed, and stores it, iff
\* the deadline is <= now; otherwise it reports active.
C7_PollStatusCompletesOnRead ==
    [][\A p \in polls :
         (/\ last'.op = "poll_status"
          /\ last'.poll_id = p.poll_id
          /\ p.status = "active")
         => IF p.deadline <= now
            THEN /\ last'.status = "completed"
                 /\ get_poll(polls', p.poll_id).status = "completed"
            ELSE /\ last'.status = "active"
                 /\ get_poll(polls', p.poll_id).status = "active"]_vars

\* poll_status reported and stored the completion of a poll at its deadline.
C7_Witness ==
    /\ last.op = "poll_status"
    /\ last.error = ""
    /\ last.status = "completed"
    /\ last.deadline = now
    /\ get_poll(polls, last.poll_id).status = "completed"

\* C8: a completed poll stays completed in every step, unless the step is
\* a prune that deletes it.
C8_CompletedIsTerminal ==
    [][\A p \in polls :
         p.status = "completed"
         => \/ get_poll(polls', p.poll_id) # Null
               /\ get_poll(polls', p.poll_id).status = "completed"
            \/ /\ get_poll(polls', p.poll_id) = Null
               /\ last'.op = "prune"
               /\ last'.error = ""]_vars

\* A prune ran over a completed poll and kept it, still completed.
C8_Witness ==
    /\ last.op = "prune"
    /\ last.error = ""
    /\ last.polls_removed = 0
    /\ last.polls_completed = 0
    /\ \E p \in polls : p.status = "completed" /\ p.deadline < now

\* C9: the identity table never holds more than one row, and holds exactly
\* one after a provision that returned ok.
C9_IdentitySingleton ==
    /\ Cardinality(identity) <= 1
    /\ (last.op = "provision" /\ last.ok) => Cardinality(identity) = 1

\* A forced provision replaced an identity created earlier.
C9_Witness ==
    /\ last.op = "provision"
    /\ last.force
    /\ ~last.already_provisioned
    /\ \E r \in identity : r.created_at < now /\ r.did = last.did

\* C10: a provision without force on an existing identity returns ok with
\* already_provisioned and the existing did, and changes neither the
\* identity row, nor the bindings, polls and votes, nor mints a DID.
C10_ProvisionIdempotent ==
    [][(last'.op = "provision" /\ ~last'.force /\ identity # {})
       => /\ last'.ok
          /\ last'.already_provisioned
          /\ last'.did = get_identity(identity).did
          /\ last'.governance_tier = get_identity(identity).governance_tier
          /\ UNCHANGED <<identity, bindings, polls, votes, nextDid>>]_vars

\* A second, unforced provision returned the DID of an identity that was
\* created earlier and has a binding.
C10_Witness ==
    /\ last.op = "provision"
    /\ ~last.force
    /\ last.already_provisioned
    /\ \E r \in identity : r.did = last.did /\ r.created_at < now
    /\ \E b \in bindings : b.did = last.did

\* The threads whose vote call has run add_vote for poll p as voter v.
VotedConcurrently(p, v) ==
    {t \in Threads : /\ Call(t).pc = "done"
                     /\ Call(t).inserted # "unset"
                     /\ Call(t).poll_id = p
                     /\ Call(t).voter_id = v}

\* C2: of the interleaved vote calls that reach the insert for one
\* (poll_id, voter_id) of a stored poll, exactly one returns ok, every other
\* returns 'vote already exists', and exactly one ballot of the pair is stored.
C2_OneBallotUnderConcurrency ==
    \A p \in polls : \A t0 \in Threads :
        LET v == Call(t0).voter_id
            S == VotedConcurrently(p.poll_id, v)
        IN  t0 \in S =>
              /\ Cardinality({t \in S : Call(t).error = ""}) = 1
              /\ \A t \in S : Call(t).error \in {"", AlreadyExists}
              /\ Cardinality({w \in votes : /\ w.poll_id = p.poll_id
                                             /\ w.voter_id = v}) = 1

\* Two calls that both passed the capacity check before any ballot was
\* stored have both run add_vote for the same pair, with different choices.
C2_Witness ==
    \E t1, t2 \in Threads :
        /\ t1 # t2
        /\ {t1, t2} \subseteq VotedConcurrently(Call(t1).poll_id, Call(t1).voter_id)
        /\ Call(t1).seen_votes = 0 /\ Call(t2).seen_votes = 0
        /\ Call(t1).choice # Call(t2).choice
        /\ Call(t1).error = "" /\ Call(t2).error = AlreadyExists
        /\ get_poll(polls, Call(t1).poll_id) # Null

\* C11: the identity's created_at is the clock of the first provision and
\* no later step changes it or removes the identity: not a forced
\* re-provision, not an upgrade.
C11_CreatedAtFixed ==
    [][/\ (identity = {} /\ identity' # {})
            => get_identity(identity').created_at = now
       /\ identity # {}
            => /\ identity' # {}
               /\ get_identity(identity').created_at
                    = get_identity(identity).created_at]_vars

\* A forced provision at a later time replaced the DID of an identity that
\* had been upgraded, and the row still carries the earlier created_at.
C11_Witness ==
    /\ last.op = "provision"
    /\ last.force
    /\ ~last.already_provisioned
    /\ last.did = Did(2)
    /\ \E r \in identity : /\ r.did = Did(2)
                            /\ r.governance_tier = "governance"
                            /\ r.created_at < now

\* C12: every stored binding carries the current identity's did and a
\* non-empty signature.
C12_BindingsOwnedAndSigned ==
    \A b \in bindings :
        /\ identity # {}
        /\ b.did = get_identity(identity).did
        /\ b.signature # NoSignature

\* After a re-provision a binding was written for the new DID.
C12_Witness ==
    /\ last.op = "bind"
    /\ last.error = ""
    /\ last.did = Did(2)
    /\ \E b \in bindings : b.did = Did(2) /\ b.subject = last.subject

\* The subject of a bind call passed its validator.
SubjectAccepted(call) ==
    \/ call.binding_type = "nostr" /\ _is_valid_nostr_pubkey(call.subject)
    \/ call.binding_type = "cln" /\ _is_valid_cln_pubkey(call.subject)

NotOwnedError == "cannot bind to a DID not owned by this node"

\* C13: a bind_nostr or bind_cln call with a valid subject returns 'cannot
\* bind to a DID not owned by this node' when given a well-formed did other
\* than the identity's, and 'identity not provisioned' when there is no
\* identity (with no did or a well-formed one); in both cases the bindings
\* stay as they were.
C13_ForeignDidRejected ==
    [][(last'.op = "bind" /\ SubjectAccepted(last'))
       => /\ (/\ identity # {}
              /\ _is_valid_did(last'.did)
              /\ last'.did # get_identity(identity).did)
                => (last'.error = NotOwnedError /\ UNCHANGED bindings)
          /\ (identity = {} /\ (last'.did = "" \/ _is_valid_did(last'.did)))
                => (last'.error = "identity not provisioned"
                    /\ UNCHANGED bindings)]_vars

\* A bind for the DID this node held before a re-provision was turned down
\* while a binding of the current DID is stored.
C13_Witness ==
    /\ last.op = "bind"
    /\ last.error = NotOwnedError
    /\ last.did = Did(1)
    /\ \E r \in identity : r.did = Did(2)
    /\ bindings # {}

\* C14: a provision that replaces the identity's did with a different one
\* leaves no binding of the old did, and logs as removed the number of
\* bindings the old did had.
C14_StaleBindingsPurged ==
    [][(/\ identity # {}
        /\ identity' # {}
        /\ get_identity(identity').did # get_identity(identity).did)
       => /\ \A b \in bindings' : b.did # get_identity(identity).did
          /\ last'.log_removed
               = Cardinality({b \in bindings :
                                b.did = get_identity(identity).did})]_vars

\* A forced re-provision has just removed both bindings of the old DID.
C14_Witness ==
    /\ last.op = "provision"
    /\ last.force
    /\ last.log_removed = 2
    /\ bindings = {}
    /\ \E r \in identity : r.did = last.did

\* C15: a step adds a poll or a vote only when an identity exists and its
\* governance_tier is 'governance'; otherwise poll_create and vote return
\* 'identity not provisioned' or 'governance tier required' and leave all
\* four tables as they were.
C15_GovernanceRequired ==
    [][/\ ({p.poll_id : p \in polls'} \ {p.poll_id : p \in polls} # {}
            \/ votes' \ votes # {})
          => (/\ identity # {}
              /\ get_identity(identity).governance_tier = "governance")
       /\ (/\ last'.op \in GovernedMethods
           /\ \/ identity = {}
              \/ get_identity(identity).governance_tier # "governance")
          => (/\ last'.error = IF identity = {}
                               THEN "identity not provisioned"
                               ELSE "governance tier required"
              /\ UNCHANGED store)]_vars

\* A vote was refused for the tier after the identity was set back to basic:
\* a poll and a ballot from the time of the governance tier are stored.
C15_Witness ==
    /\ last.op = "vote"
    /\ last.error = "governance tier required"
    /\ \E r \in identity : r.governance_tier = "basic"
    /\ \E p \in polls : p.poll_id = last.poll_id /\ p.status = "active"
                        /\ last.choice \in Range(p.options)
    /\ votes # {}

InsufficientBondError == "insufficient bond for governance tier"

\* C16: the tier becomes 'governance' only in an upgrade to governance that
\* returned ok with bond_sats >= min_governance_bond_sats; an upgrade to
\* governance with a smaller bond returns 'insufficient bond for governance
\* tier' with required_bond_sats; every rejected upgrade leaves the identity
\* row as it was.
C16_GovernanceOnlyByBond ==
    [][/\ (/\ identity' # {}
           /\ get_identity(identity').governance_tier = "governance"
           /\ \/ identity = {}
              \/ get_identity(identity).governance_tier # "governance")
          => (/\ last'.op = "upgrade"
              /\ last'.target_tier = "governance"
              /\ last'.error = ""
              /\ last'.bond_sats >= min_governance_bond_sats)
       /\ (/\ last'.op = "upgrade"
           /\ identity # {}
           /\ last'.target_tier = "governance"
           /\ last'.bond_sats_text = ""
           /\ last'.bond_sats < min_governance_bond_sats)
          => (/\ last'.error = InsufficientBondError
              /\ last'.required_bond_sats = min_governance_bond_sats)
       /\ (last'.op = "upgrade" /\ last'.error # "")
          => UNCHANGED store]_vars

\* An upgrade to governance with too small a bond was rejected on a basic
\* identity.
C16_Witness ==
    /\ last.op = "upgrade"
    /\ last.error = InsufficientBondError
    /\ last.bond_sats = min_governance_bond_sats - 1
    /\ \E r \in identity : r.governance_tier = "basic"

\* C17: an upgrade to governance returns ok only if the channel balance the
\* node reports is at least bond_sats.
C17_BondBackedByBalance ==
    (/\ last.op = "upgrade"
     /\ last.target_tier = "governance"
     /\ last.error = "")
    => last.local_balance_sats >= last.bond_sats

\* C18: every stored vote belongs to a stored poll whose options hold its
\* choice; a vote that passes the tier, capacity and activity checks with a
\* choice outside the poll's options returns 'invalid choice'; no vote with
\* such a choice adds a row.
C18_ChoiceAmongOptions ==
    [][/\ \A v \in votes' :
            \E p \in polls' : /\ p.poll_id = v.poll_id
                              /\ v.choice \in Range(p.options)
       /\ \A p \in polls :
            (/\ last'.op = "vote"
             /\ last'.poll_id = p.poll_id
             /\ last'.choice \notin Range(p.options))
            => /\ last'.error # ""
               /\ votes' = votes
               /\ (/\ _require_governance(identity) = ""
                   /\ count_total_votes(votes) < MAX_TOTAL_VOTES
                   /\ _refresh_poll_state(polls, p, now).poll.status = "active")
                  => last'.error = "invalid choice"]_vars

\* A vote for 'abstain' on an active yes/no poll that already has a ballot
\* was turned down.
C18_Witness ==
    /\ last.op = "vote"
    /\ last.error = "invalid choice"
    /\ last.choice = "abstain"
    /\ \E p \in polls : /\ p.poll_id = last.poll_id
                        /\ p.status = "active"
                        /\ p.options = <<"yes", "no">>
    /\ votes # {}

\* C19: the store never holds more than MAX_TOTAL_POLLS polls; a
\* poll_create by a governance identity on a store with MAX_TOTAL_POLLS
\* polls returns 'poll capacity reached' and leaves the polls as they were.
C19_PollCapacity ==
    [][/\ Cardinality(polls') <= MAX_TOTAL_POLLS
       /\ (/\ last'.op = "poll_create"
           /\ _require_governance(identity) = ""
           /\ Cardinality(polls) >= MAX_TOTAL_POLLS)
          => (last'.error = "poll capacity reached" /\ polls' = polls)]_vars

\* A poll_create with a valid deadline was refused on a full store.
C19_Witness ==
    /\ last.op = "poll_create"
    /\ last.error = "poll capacity reached"
    /\ last.deadline > now
    /\ Cardinality(polls) = MAX_TOTAL_POLLS

\* C20: the store never holds more than MAX_TOTAL_VOTES votes; a vote by a
\* governance identity on a store with MAX_TOTAL_VOTES votes returns 'vote
\* capacity reached' and leaves polls and votes as they were, also on a poll
\* without a ballot.
C20_VoteCapacity ==
    [][/\ Cardinality(votes') <= MAX_TOTAL_VOTES
       /\ (/\ last'.op = "vote"
           /\ _require_governance(identity) = ""
           /\ Cardinality(votes) >= MAX_TOTAL_VOTES)
          => (/\ last'.error = "vote capacity reached"
              /\ votes' = votes
              /\ polls' = polls)]_vars

\* A vote with a valid choice on an active poll that has no ballot was
\* refused on a full store.
C20_Witness ==
    /\ last.op = "vote"
    /\ last.error = "vote capacity reached"
    /\ Cardinality(votes) = MAX_TOTAL_VOTES
    /\ \E p \in polls : /\ p.poll_id = last.poll_id
                        /\ p.status = "active"
                        /\ p.deadline > now
                        /\ last.choice \in Range(p.options)
                        /\ list_votes_for_poll(votes, p.poll_id) = {}

\* C21: right after a prune(retention_days) that returned ok, no stored
\* poll, completed or active, has deadline < now - retention_days * 86400,
\* every expired poll left is completed, and every stored vote belongs to
\* a stored poll.
C21_PruneRemovesOldPolls ==
    (last.op = "prune" /\ last.error = "")
    => /\ last.retention_days >= 1
       /\ \A p \in polls :
            /\ p.deadline >= now - last.retention_days * SECONDS_PER_DAY
            /\ p.deadline <= now => p.status = "completed"
       /\ \A v \in votes : \E p \in polls : p.poll_id = v.poll_id

\* One prune completed an expired poll that was still marked active and
\* removed it, and kept a younger poll with its ballot.
C21_Witness ==
    /\ last.op = "prune"
    /\ last.error = ""
    /\ last.polls_completed >= 1
    /\ last.polls_removed >= 1
    /\ last.polls_completed + last.polls_removed > Cardinality(polls) + 1
    /\ votes # {}

\* C22: no poll_status that runs while a prune is in progress reports a
\* stored poll without ballots whose ballots that prune has deleted: the
\* deletion of the votes and of the poll is one atomic step for every other
\* call.
C22_PruneAtomic ==
    \A t \in Threads :
        ~(/\ Call(t).pc = "delete_polls"
          /\ last.op = "poll_status"
          /\ last.error = ""
          /\ last.vote_count = 0
          /\ \E v \in Call(t).deleted : v.poll_id = last.poll_id)

\* The gateway client raised, or answered without the value asked for.
GatewayFailed(call) == call.gateway \in {"raise", "none", "false"}

\* C23: a provision, poll_create or vote whose gateway call fails still
\* returns ok, with source 'local-fallback', an empty remote_poll_id or
\* remote_vote_sent false, and the identity, poll or vote is stored.
C23_GatewayFailureNotFatal ==
    [][/\ (last'.op = "provision" /\ GatewayFailed(last'))
          => /\ last'.ok
             /\ last'.source = "local-fallback"
             /\ identity' # {}
             /\ get_identity(identity').did = last'.did
             /\ get_identity(identity').source = "local-fallback"
       /\ (last'.op = "poll_create" /\ GatewayFailed(last'))
          => /\ last'.error = ""
             /\ last'.remote_poll_id = ""
             /\ \E p \in polls' \ polls : /\ p.poll_id = last'.poll_id
                                          /\ p.remote_poll_id = ""
       /\ (last'.op = "vote" /\ GatewayFailed(last'))
          => /\ last'.error = ""
             /\ ~last'.remote_vote_sent
             /\ \E v \in votes' \ votes : /\ v.poll_id = last'.poll_id
                                          /\ v.voter_id = last'.voter_id
                                          /\ v.choice = last'.choice]_vars

\* A vote on a poll that has a remote id was stored although the gateway
\* raised on the submission.
C23_Witness ==
    /\ last.op = "vote"
    /\ last.gateway = "raise"
    /\ last.error = ""
    /\ \E p \in polls : p.poll_id = last.poll_id /\ p.remote_poll_id = RemotePollId
    /\ \E v \in votes : v.poll_id = last.poll_id /\ v.voter_id = last.voter_id

\* The outbox operation that retries a method's gateway call.
OutboxOperationOf(op) ==
    IF op = "provision" THEN "provision"
    ELSE IF op = "poll_create" THEN "create_poll"
    ELSE "submit_vote"

\* C24: a provision, poll_create or vote whose gateway call fails queues a
\* pending outbox entry for that operation, due at once, which the next
\* process_outbox loads.
C24_FailureQueuesOutboxEntry ==
    [][\A op \in RemoteMethods :
          (last'.op = op /\ GatewayFailed(last'))
          => \E e \in outbox' \ outbox :
                /\ e.operation = OutboxOperationOf(op)
                /\ e.status = "pending"
                /\ e \in OutboxDue(outbox', now')]_vars

\* C25: a failed attempt on an outbox entry adds one to its retry_count and
\* records the error and the next attempt's time; a pending entry stays
\* pending while its retry_count is below max_retries and is exhausted when
\* it reaches max_retries; list_outbox_pending returns only pending entries
\* whose next_retry_at is at most the time asked for.
C25_OutboxRetryAccounting ==
    [][/\ last'.op = "mark_outbox_failed"
          => \A e \in outbox : e.entry_id = last'.entry_id
                => \E f \in outbox' :
                      /\ f.entry_id = e.entry_id
                      /\ f.retry_count = e.retry_count + 1
                      /\ f.last_error = last'.error
                      /\ f.next_retry_at = last'.next_retry_at
                      /\ e.status = "pending"
                         => f.status = IF f.retry_count < f.max_retries
                                       THEN "pending" ELSE "exhausted"
       /\ last'.op = "process_outbox"
          => /\ \A i \in DOMAIN last'.loaded :
                   \E f \in outbox' :
                      /\ f.entry_id = last'.loaded[i].entry_id
                      /\ \/ /\ f.status = "succeeded"
                            /\ f.retry_count = last'.loaded[i].retry_count
                         \/ /\ f.retry_count = last'.loaded[i].retry_count + 1
                            /\ f.last_error # ""
                            /\ f.next_retry_at > now'
                            /\ f.status = IF f.retry_count < f.max_retries
                                          THEN "pending" ELSE "exhausted"
             /\ last'.failed =
                   Cardinality({i \in DOMAIN last'.loaded :
                       \E f \in outbox' :
                          /\ f.entry_id = last'.loaded[i].entry_id
                          /\ f.retry_count = last'.loaded[i].retry_count + 1})
       /\ last'.op = "list_outbox_pending"
          => \A i \in DOMAIN last'.entries :
                /\ last'.entries[i] \in outbox'
                /\ last'.entries[i].status = "pending"
                /\ last'.entries[i].next_retry_at <= last'.now_ts]_vars

\* process_outbox failed on an entry for the last time: the entry is
\* exhausted with retry_count = max_retries, after an earlier retry.
C25_Witness ==
    /\ last.op = "process_outbox"
    /\ last.failed >= 1
    /\ \E i \in DOMAIN last.loaded :
          /\ last.loaded[i].retry_count = DEFAULT_MAX_RETRIES - 1
          /\ \E f \in outbox :
                /\ f.entry_id = last.loaded[i].entry_id
                /\ f.status = "exhausted"
                /\ f.retry_count = DEFAULT_MAX_RETRIES
                /\ f.max_retries = DEFAULT_MAX_RETRIES

OutboxTerminal(e) == e.status \in {"succeeded", "exhausted"}

\* C26: a succeeded or exhausted outbox entry never becomes pending again,
\* is not returned by list_outbox_pending, is not loaded or changed by
\* process_outbox, and is removed by prune_outbox when it is older than the
\* cutoff; no pending entry is ever removed.
C26_OutboxTerminalStates ==
    [][/\ \A e \in outbox : OutboxTerminal(e)
             => \A f \in outbox' : f.entry_id = e.entry_id => OutboxTerminal(f)
       /\ \A e \in outbox : e.status = "pending"
             => \E f \in outbox' : f.entry_id = e.entry_id
       /\ last'.op = "list_outbox_pending"
          => \A i \in DOMAIN last'.entries : ~OutboxTerminal(last'.entries[i])
       /\ last'.op = "process_outbox"
          => /\ \A i \in DOMAIN last'.loaded : ~OutboxTerminal(last'.loaded[i])
             /\ \A e \in outbox : OutboxTerminal(e) => e \in outbox'
       /\ last'.op = "prune_outbox"
          => \A e \in outbox :
                (OutboxTerminal(e) /\ e.created_at < last'.before_ts)
                => ~(\E f \in outbox' : f.entry_id = e.entry_id)]_vars

\* prune_outbox removed a terminal entry and left a pending entry that is as
\* old.
C26_Witness ==
    /\ last.op = "prune_outbox"
    /\ last.removed >= 1
    /\ \E e \in outbox : e.status = "pending" /\ e.created_at < last.before_ts

\* C27: no call lets an exception out: every result is an ok result or an
\* error object (error 'exception' marks an exception that left the call).
C27_NoExceptionEscapes ==
    "error" \in DOMAIN last => last.error # "exception"

\* The signature could not be had: there is no rpc, or rpc.signmessage
\* answered without one.
SigningFailed(call) == call.signmessage \in {"empty", "unavailable"}

\* C28: a bind_nostr, bind_cln or vote call that gets no signature returns
\* a signing error and writes no binding or vote row; every stored vote and
\* binding carries a non-empty signature.
C28_SigningFailureFatal ==
    [][/\ (last'.op = "vote" /\ SigningFailed(last'))
          => (last'.error = "vote signing failed" /\ UNCHANGED votes)
       /\ (last'.op = "bind" /\ SigningFailed(last'))
          => (last'.error = "signing failed" /\ UNCHANGED bindings)
       /\ \A v \in votes' : v.signature # NoSignature
       /\ \A b \in bindings' : b.signature # NoSignature]_vars

\* With a binding and a ballot stored, a vote on another poll got an empty
\* answer from rpc.signmessage and was refused.
C28_Witness ==
    /\ last.op = "vote"
    /\ last.signmessage = "empty"
    /\ last.error = "vote signing failed"
    /\ bindings # {}
    /\ votes # {}
    /\ ~(\E v \in votes : v.poll_id = last.poll_id)

\* C29: the gateway URL validation accepts a URL exactly when its scheme is
\* https and its host is non-empty, or its scheme is http and its host is
\* localhost or 127.0.0.1.
C29_GatewayUrlValidation ==
    last.op = "__init__"
    => (last.valid <=> \/ last.url.scheme = "https" /\ last.url.host # ""
                       \/ /\ last.url.scheme = "http"
                          /\ last.url.host \in {"localhost", "127.0.0.1"})

\* The host of the request did not resolve, or one of its addresses is not a
\* public one.
ResolutionBlocked(resolved) == resolved = {} \/ resolved # {"public"}

\* C30: a gateway client call whose host does not resolve, or resolves to a
\* loopback, link-local, private, unique-local or multicast address, sends
\* no request and reports failure (None, or False for submit_vote) without
\* raising.
C30_RequestsResolveFirst ==
    (last.op \in {"provision_identity", "create_poll", "submit_vote"}
     /\ ResolutionBlocked(last.resolved))
    => /\ ~last.sent
       /\ last.raised = ""
       /\ last.result = IF last.op = "submit_vote" THEN "false" ELSE ""

\* C31: provision leaves the governance tier as it was: a first provision
\* writes the identity at tier basic, and a provision on an existing
\* identity, forced or not, keeps and returns the tier it had.
C31_ProvisionKeepsTier ==
    [][last'.op = "provision"
       => /\ identity' # {}
          /\ get_identity(identity').governance_tier = last'.governance_tier
          /\ last'.governance_tier = IF identity = {} THEN "basic"
                                     ELSE get_identity(identity).governance_tier]_vars

\* A forced re-provision replaced the DID of a governance identity.
C31_Witness ==
    /\ last.op = "provision"
    /\ last.force
    /\ ~last.already_provisioned
    /\ last.governance_tier = "governance"
    /\ \E r \in identity : r.did = last.did /\ r.did # Did(1)
                           /\ r.governance_tier = "governance"

\* The rows of bs for a subject of a binding type.
BoundRows(bs, binding_type, subject) ==
    {b \in bs : b.binding_type = binding_type /\ b.subject = subject}

\* C32: there is at most one binding row per (binding_type, subject); a
\* bind call that succeeds leaves one row for its subject, with the
\* signature of the new attestation and updated_at = now, and with the
\* created_at of the row it replaced if there was one; it adds a row only
\* if the subject was not bound.
C32_OneBindingPerSubject ==
    [][/\ \A b1, b2 \in bindings' :
             (b1.binding_type = b2.binding_type /\ b1.subject = b2.subject)
             => b1 = b2
       /\ (last'.op = "bind" /\ last'.error = "")
          => LET old == BoundRows(bindings, last'.binding_type, last'.subject)
                 new == BoundRows(bindings', last'.binding_type, last'.subject)
             IN  /\ Cardinality(new) = 1
                 /\ \A b \in new :
                       /\ b.did = last'.did
                       /\ b.updated_at = now'
                       /\ b.signature = Signature(<<last'.binding_type, last'.did,
                                                    last'.subject, now'>>)
                       /\ \A o \in old : b.created_at = o.created_at
                       /\ old = {} => b.created_at = now'
                 /\ bindings' \ new = bindings \ old]_vars

\* A subject was bound again at a later time: the row kept its created_at.
C32_Witness ==
    /\ last.op = "bind"
    /\ last.error = ""
    /\ \E b \in bindings : /\ b.binding_type = last.binding_type
                           /\ b.subject = last.subject
                           /\ b.updated_at = now
                           /\ b.created_at < now
    /\ Cardinality(bindings) = 2

RECURSIVE SumOver(_, _)
SumOver(f, keys) ==
    IF keys = {} THEN 0
    ELSE LET k == CHOOSE x \in keys : TRUE
         IN  f[k] + SumOver(f, keys \ {k})

\* C33: poll_status of a stored poll returns a tally whose keys are the
\* poll's options, each with the number of stored votes of the poll that
\* chose it; the counts add up to vote_count, which is the length of voters.
C33_TallyMatchesVotes ==
    (last.op = "poll_status" /\ last.error = "")
    => LET p == get_poll(polls, last.poll_id)
       IN  /\ p # Null
           /\ DOMAIN last.tally = Range(p.options)
           /\ \A c \in DOMAIN last.tally :
                 last.tally[c] = Cardinality({v \in votes : /\ v.poll_id = p.poll_id
                                                            /\ v.choice = c})
           /\ SumOver(last.tally, DOMAIN last.tally) = last.vote_count
           /\ last.vote_count = Len(last.voters)

\* poll_status counted two ballots on a poll, with an option nobody chose.
C33_Witness ==
    /\ last.op = "poll_status"
    /\ last.error = ""
    /\ last.vote_count = 2
    /\ \E c \in DOMAIN last.tally : last.tally[c] = 0
    /\ \E c \in DOMAIN last.tally : last.tally[c] >= 1

\* A poll that a read at time now_ts has to take as completed.
Expired(p, now_ts) == p.status = "active" /\ p.deadline <= now_ts

\* C34: no read reports as active a poll whose deadline is <= now: the
\* status my_votes attaches to a vote is not 'active' for such a poll, and
\* status counts such a poll among the completed polls.
C34_ExpiredNeverReportedActive ==
    /\ (last.op = "my_votes" /\ last.error = "")
       => \A r \in last.votes : ~(r.status = "active" /\ r.deadline <= now)
    /\ last.op = "status"
       => /\ last.active_polls =
                Cardinality({p \in polls : p.status = "active" /\ ~Expired(p, now)})
          /\ last.completed_polls =
                Cardinality({p \in polls : p.status = "completed" \/ Expired(p, now)})

\* C35: my_votes(limit) with limit >= 1 returns the newest min(limit, 500)
\* of the votes this node has cast on polls still stored, and their number
\* as count; with limit <= 0 it returns an error.
C35_MyVotesReturnsOwnVotes ==
    last.op = "my_votes"
    => IF last.limit <= 0
       THEN last.error # ""
       ELSE /\ last.error = ""
            /\ last.count = Cardinality(last.votes)
            /\ LET cast == {w \in votes : get_poll(polls, w.poll_id) # Null}
                    all == {[vote |-> v,
                             status |-> get_poll(polls, v.poll_id).status,
                             deadline |-> get_poll(polls, v.poll_id).deadline] :
                              v \in cast}
                IN  /\ last.votes \subseteq all
                    /\ last.count = IF Cardinality(all) < last.limit
                                    THEN Cardinality(all)
                                    ELSE IF last.limit < MAX_MY_VOTES THEN last.limit
                                    ELSE MAX_MY_VOTES
                    /\ \A a \in last.votes, b \in all \ last.votes :
                          a.vote.voted_at >= b.vote.voted_at

\* C36: every stored vote was stamped before its poll's deadline.
C36_VotedBeforeDeadline ==
    \A v \in votes : \A p \in polls :
        p.poll_id = v.poll_id => v.voted_at < p.deadline

\* C37: every stored vote names a poll that is stored, whatever the
\* interleaving of the statements of vote and prune and of poll_create.
C37_EveryVoteHasItsPoll ==
    \A v \in votes : \E p \in polls : p.poll_id = v.poll_id

\* A vote that read its poll before prune deleted it has been refused by
\* the foreign key.
C37_Witness ==
    \E t \in Threads : /\ Call(t).pc = "done"
                       /\ Call(t).inserted = "false"
                       /\ Call(t).poll # Null
                       /\ get_poll(polls, Call(t).poll_id) = Null
                       /\ votes = {}

\* Every thread has made a provision call and the call has returned.
ProvisionCallsFinished ==
    \A t \in Threads : Call(t).method = "provision" /\ Call(t).pc = "done"

\* C38: when the provision calls have all read the identity before any of
\* them wrote it, then once they have finished the did each ok call returned
\* is the stored did, and the row's created_at is the one the first write
\* stored.
C38_InterleavedProvisionsAgree ==
    (ProvisionCallsFinished /\ \A t \in Threads : Call(t).seen = Null) =>
        /\ \A t \in Threads :
              Call(t).error = "" => Call(t).did = get_identity(identity).did
        /\ \A t \in Threads :
              Call(t).first =>
                  get_identity(identity).created_at = Call(t).created_at

\* C39: once a bind_nostr or bind_cln call and a forced re-provision that
\* ran between its statements have both finished, no binding names a did
\* other than the identity's.
C39_BindingsFollowIdentity ==
    (\A t \in Threads : Call(t).pc = "done") =>
        \A b \in bindings : b.did = get_identity(identity).did

\* The polls a prune(retention_days) call at the present time has to keep:
\* those still active after expiry processing, and those whose deadline is
\* not before the cutoff.
KeptByPrune(retention_days) ==
    {p \in polls : \/ p.status = "active" /\ p.deadline > now
                   \/ p.deadline >= now - retention_days * SECONDS_PER_DAY}

\* C40: a prune call keeps every poll that is still active after expiry
\* processing or whose deadline is not before now - retention_days * 86400,
\* and every vote of such a poll, adds no poll and no vote and leaves the
\* identity and the bindings as they were; a prune rejected for
\* retention_days < 1 changes nothing.
C40_PruneDeletesNothingElse ==
    [][last'.op = "prune" =>
          IF last'.error # ""
          THEN UNCHANGED <<store, now, nextDid, nextPoll, network_enabled,
                           outbox, calls>>
          ELSE /\ UNCHANGED <<identity, bindings>>
               /\ votes' \subseteq votes
               /\ \A q \in polls' : \E p \in polls : p.poll_id = q.poll_id
               /\ \A p \in KeptByPrune(last'.retention_days) :
                     /\ \E q \in polls' : q.poll_id = p.poll_id
                     /\ \A v \in votes : v.poll_id = p.poll_id => v \in votes'
    ]_vars

\* A prune has removed a poll and kept another one with its vote.
C40_Witness ==
    /\ last.op = "prune"
    /\ last.error = ""
    /\ last.polls_removed > 0
    /\ \E v \in votes : \E p \in polls : p.poll_id = v.poll_id

====
